---------------------------- MODULE Spec2Model ----------------------------
(***************************************************************************)
(* A model of the authenticated-connection engine of LoveACE               *)
(* (src/provider/aufe/client.py): the identity-keyed connection pool, the  *)
(* AUFEConnection life cycle (construction, monitor task, close,           *)
(* reconnect), the two login handshakes, the typed request executor, the   *)
(* response cache and the retry decorator; with it, the evaluation task    *)
(* managers and the login-token table that are built on the engine.        *)
(*                                                                         *)
(* The program runs on one asyncio event loop: a coroutine runs without    *)
(* interruption from one await to the next.  Every action below is one     *)
(* such segment of one task, from the await it was suspended in to the     *)
(* next await that suspends it (or to its return).                         *)
(*                                                                         *)
(* The specifications share the variables:                                 *)
(*   Spec        the pool: create_or_get_connection, close() by every      *)
(*               caller, cleanup_inactive_connections, the monitors and    *)
(*               the clock, over several instances that are not logged in; *)
(*   SpecConn    one pooled instance with every operation on it: both      *)
(*               logins, model_request with cache and reconnect, close(),  *)
(*               the monitor with its health check;                        *)
(*   SpecReq     one pooled instance with a model_request and a login()    *)
(*               of two tasks at the same time;                            *)
(*   SpecMonitor one pooled instance with its monitor, login() and         *)
(*               close(); SpecMonitorLive adds the fairness of the loop;   *)
(*   SpecStats   get_connection_stats on every small pool;                 *)
(*   SpecHealth  the ConnectionHealth record under its two marks;          *)
(*   SpecRetry   the retry_async wrapper around an arbitrary operation;    *)
(*               SpecRetryLive adds the fairness of the loop;              *)
(*   SpecGet     create_or_get_connection on every small pool;             *)
(*   SpecEval    the evaluation task managers of a user                    *)
(*               (src/router/jwc/evaluate.py) under the evaluation         *)
(*               requests and their background tasks;                      *)
(*   SpecTask    one initialised manager with its background task, pause,  *)
(*               resume and terminate;                                     *)
(*   SpecLogin   the login-token rows of a user                            *)
(*               (src/provider/loveac/authme.py) under login requests.     *)
(***************************************************************************)
EXTENDS Integers, Sequences, FiniteSets, TLC

\* ------------------------------------------------------------------ bounds
MaxConns == 3          \* AUFEConnection instances constructed in one run of Spec
MaxTime == 450         \* the modelled clock stops here (seconds)
TickSeconds == 150     \* granularity of the modelled clock (seconds)
MaxErrorCount == 3     \* ConnectionHealth.error_count is followed up to here
MaxAttempts == 3       \* RetryConfig.max_attempts ranges over 0..MaxAttempts in SpecRetry
MaxManagers == 2       \* EvaluationTaskManager instances constructed in SpecEval
MaxLogins == 7         \* login requests that reach manage_user_tokens in SpecLogin

\* ------------------------------------------------------- program constants
ACTIVITY_TIMEOUT == 300    \* AUFEConfig.activity_timeout
MAX_RETRIES == 3           \* AUFEConfig.max_retries
CACHE_TTL == 300           \* self._cache_ttl
RETRY_EXPONENTIAL_BASE == 2    \* AUFEConfig.retry_exponential_base
TOKEN_LIMIT == 5           \* manage_user_tokens: len(existing_tokens) >= 5
OLDEST_DELETED == 2        \* manage_user_tokens: existing_tokens[-2:]

Identities == {"s1", "s2"}          \* student ids (non-empty strings)
Handlers == {"t1"}                  \* tasks that log in, send requests and close
Callers == Handlers \cup {"t2"}      \* "t2" is a second task: it calls close() in
                                    \* SpecConn and login() in SpecReq
Keys == {"k1"}                      \* cache keys: f"{method}:{url}:{hash(str(kwargs))}"
Conns == 1..MaxConns
NoConn == 0

Users == {"u1"}                     \* user ids of evaluate.py (client.user_id)
EvalHandlers == {"r1", "r2"}        \* tasks that handle the evaluation requests
Catalogue == <<"a", "b">>           \* courses of the evaluation system, in the
                                    \* order its course list has them
Managers == 1..MaxManagers
NoManager == 0
LoginHandlers == {"l1", "l2"}       \* tasks that handle POST /login of one user

VARIABLES
    aufe_connections,  \* _aufe_connections: student id -> instance (NoConn: no key)
    nconns,            \* number of instances constructed so far
    student_id,        \* self.student_id of each instance
    is_closed,         \* self._is_closed
    logged_in,         \* self._logged_in
    uaap_logged_in,    \* self._uaap_logged_in
    twf_id,            \* self.twf_id: "None" or "token"
    uaap_cookies,      \* self.uaap_cookies: "None" or "cookies"
    health,            \* self._health: [is_healthy, error_count, last_error]
    last_activity,     \* self.last_activity
    session,           \* state of the httpx client self.session refers to
    request_cache,     \* self._request_cache: key -> [response, timestamp] or NoEntry
    auto_close_task,   \* position of the monitor task self._auto_close_task
    close_task,        \* position of the task create_or_get_connection spawns for close()
    caller,            \* position of each request-handler task with its
                       \* arguments and locals; sends and posts (the HTTP calls
                       \* and POSTs the call has issued), was_closed (the
                       \* instance was closed when it was called) and reconnect
                       \* (how the call's last _reconnect ended) are history
    now,               \* time.time()
    retry,             \* the retry_async wrapper of SpecRetry
    last_ret,          \* history: the instance create_or_get_connection last returned per id
    stayed_active,     \* history: that instance has been is_active() ever since
    just_returned,     \* history: the id whose create_or_get_connection call made
                       \*          the last step, "none" after any other step
    close_log,         \* history: what the close() calls on an instance did
    task_managers,     \* _task_managers of evaluate.py: user id -> manager (NoManager: no key)
    nmanagers,         \* number of EvaluationTaskManager instances constructed so far
    manager,           \* each manager: stats, _stop_event, the position of its
                       \* _task with the task's locals; passed (the courses the
                       \* task gave to evaluate_course) and at_start (the
                       \* courses pending when the task began) are history
    request,           \* position of each task that handles an evaluation request
    catalogue,         \* the courses the evaluation system has for the user
    authme_table,      \* the rows of authme_table, oldest create_date first
    ntokens,           \* number of rows inserted so far
    login_user         \* position of each task that handles a login request

poolVars == <<aufe_connections, nconns, student_id>>
authVars == <<logged_in, uaap_logged_in, twf_id, uaap_cookies>>
histVars == <<last_ret, stayed_active, just_returned, close_log>>
evalVars == <<task_managers, nmanagers, manager, request, catalogue>>
tokenVars == <<authme_table, ntokens, login_user>>
connVars == <<poolVars, is_closed, authVars, health, last_activity, session,
              request_cache, auto_close_task, close_task, caller, now, histVars>>

vars == <<aufe_connections, nconns, student_id, is_closed, logged_in, uaap_logged_in,
          twf_id, uaap_cookies, health, last_activity, session, request_cache,
          auto_close_task, close_task, caller, now, retry, last_ret, stayed_active,
          just_returned, close_log, task_managers, nmanagers, manager, request, catalogue,
          authme_table, ntokens, login_user>>

\* ------------------------------------------------------- ConnectionHealth
\* last_check is written by both marks and read nowhere; it is left out.
HealthInit == [is_healthy |-> TRUE, error_count |-> 0, last_error |-> "None"]

mark_error(h, e) ==
    [is_healthy |-> FALSE, error_count |-> h.error_count + 1, last_error |-> e]

\* A mark_healthy that keeps the count of errors: not what C36 states.
mark_healthy_keeps_count(h) ==
    [is_healthy |-> TRUE, error_count |-> h.error_count, last_error |-> "None"]

mark_healthy(h) == [is_healthy |-> TRUE, error_count |-> 0, last_error |-> "None"]

\* A should_reconnect that never asks for a reconnect: not what C13 states.
should_reconnect_never(h) == FALSE

should_reconnect(h) == ~h.is_healthy \/ h.error_count >= 3

\* error_count is followed up to MaxErrorCount: a step that would count past it is
\* not taken.
CanMarkError(c) == health[c].error_count < MaxErrorCount

\* ------------------------------------------------------------ AUFEConnection
Constructed == 1..nconns

is_active(c) ==
    /\ ~is_closed[c]
    /\ now - last_activity[c] < ACTIVITY_TIMEOUT
    /\ health[c].is_healthy

login_status(c) == logged_in[c] /\ health[c].is_healthy

uaap_login_status(c) == uaap_logged_in[c] /\ health[c].is_healthy

NoStats == [total_connections |-> 0, active_connections |-> 0,
            inactive_connections |-> 0, healthy_connections |-> 0,
            unhealthy_connections |-> 0]

IdleCaller == [op |-> "idle", conn |-> NoConn, pc |-> "idle", attempt |-> 0,
               result |-> "none", key |-> "none", use_cache |-> FALSE,
               todo |-> <<>>, count |-> 0, sends |-> 0, was_closed |-> FALSE,
               page |-> "none", posts |-> 0, snapshot |-> {}, stats |-> NoStats,
               force_reconnect |-> FALSE, reconnect |-> "none"]

NoCloseLog == [entered |-> 0, cancels |-> 0, unregs |-> 0, releases |-> 0,
               returned |-> FALSE]

NoRetry == [pc |-> "unset"]

NoEntry == [response |-> "None", timestamp |-> 0]      \* a key the cache does not hold

Inc2(n) == IF n < 2 THEN n + 1 ELSE 2

\* evaluate.py lines 27-42 and 115-130: a manager as constructed.  task is the
\* position of self._task ("none": no task yet), cancel the cancellation asked of it.
NewManager ==
    [user_id |-> "none", status |-> "idle", course_list |-> <<>>,
     stop_event |-> FALSE, task |-> "none", cancel |-> FALSE,
     pending_courses |-> <<>>, index |-> 0, success_count |-> 0, fail_count |-> 0,
     passed |-> <<>>, at_start |-> {}]

IdleRequest == [op |-> "idle", pc |-> "idle", mgr |-> NoManager]

\* evaluate.py line 608: no manager, no request in progress.
NoManagers ==
    /\ task_managers = [u \in Users |-> NoManager]
    /\ nmanagers = 0
    /\ manager = [m \in Managers |-> NewManager]
    /\ request = [t \in EvalHandlers |-> IdleRequest]

\* database/user.py lines 38-44: an empty authme_table, no login in progress.
NoLogins ==
    /\ authme_table = <<>>
    /\ ntokens = 0
    /\ login_user = [t \in LoginHandlers |-> [pc |-> "idle", existing_tokens |-> <<>>]]

SideIdle == NoManagers /\ catalogue = <<>> /\ NoLogins

\* The state before the first create_or_get_connection call, but for the retry
\* wrapper.
EmptyPool ==
    /\ aufe_connections = [i \in Identities |-> NoConn]
    /\ nconns = 0
    /\ student_id = [c \in Conns |-> "unset"]
    /\ is_closed = [c \in Conns |-> FALSE]
    /\ logged_in = [c \in Conns |-> FALSE]
    /\ uaap_logged_in = [c \in Conns |-> FALSE]
    /\ twf_id = [c \in Conns |-> "None"]
    /\ uaap_cookies = [c \in Conns |-> "None"]
    /\ health = [c \in Conns |-> HealthInit]
    /\ last_activity = [c \in Conns |-> 0]
    /\ session = [c \in Conns |-> "unset"]
    /\ request_cache = [c \in Conns |-> [k \in Keys |-> NoEntry]]
    /\ auto_close_task = [c \in Conns |-> "unset"]
    /\ close_task = [c \in Conns |-> "none"]
    /\ caller = [t \in Callers |-> IdleCaller]
    /\ now = 0
    /\ last_ret = [i \in Identities |-> NoConn]
    /\ stayed_active = [i \in Identities |-> FALSE]
    /\ just_returned = "none"
    /\ close_log = [c \in Conns |-> NoCloseLog]

Init == EmptyPool /\ retry = NoRetry /\ SideIdle

\* ----------------------------------------------------------- bookkeeping
Touch(c) == [last_activity EXCEPT ![c] = now]                \* _update_activity

SetCaller(t, r) == [caller EXCEPT ![t] = r]

Finish(t, res) == SetCaller(t, [caller[t] EXCEPT !.pc = "done", !.result = res])

\* The response r is what the handler t holds in its local variables.
Page(f, t, r) == [f EXCEPT ![t].page = r]

\* In every step that is not a create_or_get_connection call, the instance last
\* returned for an identity stays "active ever since" only while is_active() holds.
Decay ==
    /\ last_ret' = last_ret
    /\ just_returned' = "none"
    /\ stayed_active' =
         [i \in Identities |->
            /\ stayed_active[i]
            /\ last_ret[i] # NoConn
            /\ ~is_closed'[last_ret[i]]
            /\ now' - last_activity'[last_ret[i]] < ACTIVITY_TIMEOUT
            /\ health'[last_ret[i]].is_healthy]

\* ---------------------------------------------------------------- close()
\* close() runs in three segments: up to "await self._auto_close_task", from there
\* to "await self.session.aclose()", and the return.  It is run by a request
\* handler, by the task create_or_get_connection spawns, and by the monitor itself.

\* session.aclose() is called on the client self.session refers to: httpx marks
\* the client closed as the call starts; on a client that is closed already the
\* call does nothing.
Aclose(c) == [session EXCEPT ![c] = "closed"]

\* line 788: the early return.
CloseGuard(c) == is_closed[c]

\* line 794: the monitor is cancelled and awaited unless it has finished.
MonitorRunning(c) == auto_close_task[c] # "done"

\* line 802: the pool holds a key equal to this instance's student id.
RemovesEntry(c) ==
    student_id[c] \in Identities /\ aufe_connections[student_id[c]] # NoConn

\* lines 802-803: the pool entry under this instance's student id is deleted.
Unregistered(c) ==
    IF RemovesEntry(c)
    THEN [aufe_connections EXCEPT ![student_id[c]] = NoConn]
    ELSE aufe_connections

\* lines 801-806: the second segment, once the awaited monitor task is done.
\* httpx marks the client closed as aclose() starts.
CloseAfterJoin(c) ==
    /\ aufe_connections' = Unregistered(c)
    /\ session' = Aclose(c)
    /\ close_log' = [close_log EXCEPT
                      ![c].unregs = IF RemovesEntry(c) THEN Inc2(@) ELSE @,
                      ![c].releases = Inc2(@)]

\* What the first segment of close() adds to the history log.
CloseEnterLog(c, log) ==
    IF MonitorRunning(c)
    THEN [log EXCEPT ![c].entered = Inc2(@), ![c].cancels = Inc2(@)]
    ELSE [log EXCEPT ![c].entered = Inc2(@),
                     ![c].unregs = IF RemovesEntry(c) THEN Inc2(@) ELSE @,
                     ![c].releases = Inc2(@)]

\* lines 791-806, entered by a task other than the monitor: the first segment,
\* which runs on into the second when there is no monitor task to await.
CloseEnterState(c) ==
    /\ is_closed' = [is_closed EXCEPT ![c] = TRUE]
    /\ IF MonitorRunning(c)
       THEN /\ auto_close_task' = [auto_close_task EXCEPT ![c] = "cancelling"]
            /\ UNCHANGED <<aufe_connections, session>>
       ELSE /\ aufe_connections' = Unregistered(c)
            /\ session' = Aclose(c)
            /\ UNCHANGED auto_close_task

CloseEnter(c) ==
    /\ CloseEnterState(c)
    /\ close_log' = CloseEnterLog(c, close_log)

\* line 807: aclose() has returned and so does close().
CloseReturned(c) == close_log' = [close_log EXCEPT ![c].returned = TRUE]

\* -- close() called by a request handler (connection.close(), __aexit__)
CallerClose(t, c) ==
    /\ caller[t].pc = "idle"
    /\ c \in Constructed
    /\ IF CloseGuard(c)
       THEN /\ caller' = SetCaller(t, [IdleCaller EXCEPT !.op = "close", !.conn = c,
                                                         !.pc = "done"])
            /\ UNCHANGED <<is_closed, auto_close_task, aufe_connections, session,
                           close_log>>
       ELSE /\ CloseEnter(c)
            /\ caller' = SetCaller(t, [IdleCaller EXCEPT
                           !.op = "close", !.conn = c,
                           !.pc = IF MonitorRunning(c) THEN "close_await_monitor"
                                                       ELSE "close_await_aclose"])
    /\ UNCHANGED <<nconns, student_id, authVars, health, last_activity, request_cache,
                   close_task, now, retry, evalVars, tokenVars>>
    /\ Decay

CallerCloseJoined(t) ==
    /\ caller[t].pc = "close_await_monitor"
    /\ auto_close_task[caller[t].conn] = "done"
    /\ CloseAfterJoin(caller[t].conn)
    /\ caller' = SetCaller(t, [caller[t] EXCEPT !.pc = "close_await_aclose"])
    /\ UNCHANGED <<nconns, student_id, is_closed, authVars, health, last_activity,
                   request_cache, auto_close_task, close_task, now, retry,
                   evalVars, tokenVars>>
    /\ Decay

CallerCloseDone(t) ==
    /\ caller[t].op = "close"
    /\ caller[t].pc = "close_await_aclose"
    /\ CloseReturned(caller[t].conn)
    /\ caller' = Finish(t, "none")
    /\ UNCHANGED <<poolVars, is_closed, authVars, health, last_activity, session,
                   request_cache, auto_close_task, close_task, now, retry,
                   evalVars, tokenVars>>
    /\ Decay

\* -- asyncio.create_task(existing_conn.close()), line 1105
SpawnedClose(c) ==
    /\ close_task[c] = "pending"
    /\ IF CloseGuard(c)
       THEN /\ close_task' = [close_task EXCEPT ![c] = "done"]
            /\ UNCHANGED <<is_closed, auto_close_task, aufe_connections, session,
                           close_log>>
       ELSE /\ CloseEnter(c)
            /\ close_task' = [close_task EXCEPT
                                ![c] = IF MonitorRunning(c) THEN "await_monitor"
                                                            ELSE "await_aclose"]
    /\ UNCHANGED <<nconns, student_id, authVars, health, last_activity, request_cache,
                   caller, now, retry, evalVars, tokenVars>>
    /\ Decay

SpawnedCloseJoined(c) ==
    /\ close_task[c] = "await_monitor"
    /\ auto_close_task[c] = "done"
    /\ CloseAfterJoin(c)
    /\ close_task' = [close_task EXCEPT ![c] = "await_aclose"]
    /\ UNCHANGED <<nconns, student_id, is_closed, authVars, health, last_activity,
                   request_cache, auto_close_task, caller, now, retry,
                   evalVars, tokenVars>>
    /\ Decay

SpawnedCloseDone(c) ==
    /\ close_task[c] = "await_aclose"
    /\ CloseReturned(c)
    /\ close_task' = [close_task EXCEPT ![c] = "done"]
    /\ UNCHANGED <<poolVars, is_closed, authVars, health, last_activity, session,
                   request_cache, auto_close_task, caller, now, retry,
                   evalVars, tokenVars>>
    /\ Decay

\* ------------------------------------------------- _monitor_auto_close
\* The task's positions: "sleep" (in asyncio.sleep(MONITOR_INTERVAL); how long the
\* sleep lasts decides nothing, so it may end at any time), "probe" (in the health
\* check's session.get), "close_self" (in its own close(), at the await of its own
\* task), "close_aclose" (in its own close(), at session.aclose()), "cancelling"
\* (cancel() was called on it and the CancelledError is not delivered yet), "done".

\* An inactivity test that is met at the threshold already: not what C21 states.
IdleTooLongInclusive(c) == now - last_activity[c] >= ACTIVITY_TIMEOUT

\* line 321: the inactivity test of the monitor.
IdleTooLong(c) == now - last_activity[c] > ACTIVITY_TIMEOUT

\* line 337: the health check sends its probe only when logged in.
ProbeWanted(c) == logged_in[c]

\* lines 317-327 and 334-346: the sleep is over.  Idle for too long: the monitor
\* calls close(), which sets the flag, cancels the monitor's own task and awaits
\* it.  Otherwise the health check: a probe when logged in, nothing when not.
MonitorWake(c) ==
    /\ auto_close_task[c] = "sleep"
    /\ IF IdleTooLong(c)
       THEN /\ IF CloseGuard(c)
               THEN /\ auto_close_task' = [auto_close_task EXCEPT ![c] = "done"]
                    /\ UNCHANGED <<is_closed, close_log>>
               ELSE /\ is_closed' = [is_closed EXCEPT ![c] = TRUE]
                    /\ auto_close_task' = [auto_close_task EXCEPT ![c] = "close_self"]
                    /\ close_log' = [close_log EXCEPT ![c].entered = Inc2(@),
                                                      ![c].cancels = Inc2(@)]
            /\ UNCHANGED health
       ELSE /\ UNCHANGED <<is_closed, close_log>>
            /\ IF ProbeWanted(c) /\ session[c] = "open"
               THEN /\ auto_close_task' = [auto_close_task EXCEPT ![c] = "probe"]
                    /\ UNCHANGED health
               ELSE IF ProbeWanted(c)
               THEN \* the client is closed (a reconnect is under way): get() raises
                    /\ CanMarkError(c)
                    /\ health' = [health EXCEPT ![c] = mark_error(@, "Exception")]
                    /\ UNCHANGED auto_close_task
               ELSE UNCHANGED <<auto_close_task, health>>
    /\ UNCHANGED <<poolVars, authVars, last_activity, session, request_cache,
                   close_task, caller, now, retry, evalVars, tokenVars>>
    /\ Decay

ProbeOutcomes == {"200", "non200", "RequestError"}

\* lines 340-346: the probe's answer, then the next sleep.
MonitorProbeDone(c, r) ==
    /\ auto_close_task[c] = "probe"
    /\ IF r = "200"
       THEN health' = [health EXCEPT ![c] = mark_healthy(@)]
       ELSE /\ CanMarkError(c)
            /\ health' = [health EXCEPT ![c] =
                 mark_error(@, IF r = "non200" THEN "AUFEConnectionError" ELSE r)]
    /\ auto_close_task' = [auto_close_task EXCEPT ![c] = "sleep"]
    /\ UNCHANGED <<poolVars, is_closed, authVars, last_activity, session,
                   request_cache, close_task, caller, now, retry,
                   evalVars, tokenVars, close_log>>
    /\ Decay

\* lines 329-330: cancel() was called by a close(); the CancelledError arrives at
\* the monitor's await and ends the task.
MonitorCancelled(c) ==
    /\ auto_close_task[c] = "cancelling"
    /\ auto_close_task' = [auto_close_task EXCEPT ![c] = "done"]
    /\ UNCHANGED <<poolVars, is_closed, authVars, health, last_activity, session,
                   request_cache, close_task, caller, now, retry,
                   evalVars, tokenVars, close_log>>
    /\ Decay

\* lines 798-806 in the monitor's own close(): awaiting its own, cancelled task
\* raises CancelledError, which close() swallows; close() goes on.
MonitorCloseJoined(c) ==
    /\ auto_close_task[c] = "close_self"
    /\ CloseAfterJoin(c)
    /\ auto_close_task' = [auto_close_task EXCEPT ![c] = "close_aclose"]
    /\ UNCHANGED <<nconns, student_id, is_closed, authVars, health, last_activity,
                   request_cache, close_task, caller, now, retry, evalVars, tokenVars>>
    /\ Decay

\* lines 807 and 324: close() returns into the monitor, which leaves its loop.
MonitorCloseDone(c) ==
    /\ auto_close_task[c] = "close_aclose"
    /\ CloseReturned(c)
    /\ auto_close_task' = [auto_close_task EXCEPT ![c] = "done"]
    /\ UNCHANGED <<poolVars, is_closed, authVars, health, last_activity, session,
                   request_cache, close_task, caller, now, retry, evalVars, tokenVars>>
    /\ Decay

\* A reuse that looks at the closed flag only, not at the health record nor at
\* the time of the last activity: not what C37 states.
ReusableIfOpen(existing) == existing # NoConn /\ ~is_closed[existing]

\* ------------------------------------------- create_or_get_connection
\* A variant of the reuse test that only asks for an entry: with it the pool hands
\* out instances that were closed, which is what C6 excludes.
ReusableAnyEntry(existing) == existing # NoConn

\* line 1097: the existing instance is reused.
Reusable(existing) == existing # NoConn /\ is_active(existing)

\* lines 1096-1109 with __init__ (lines 263-295).  The call has no await: it is
\* one step.
create_or_get_connection(i) ==
    LET existing == aufe_connections[i]
        new == nconns + 1
    IN  /\ IF Reusable(existing)
           THEN /\ last_activity' = Touch(existing)
                /\ last_ret' = [last_ret EXCEPT ![i] = existing]
                /\ UNCHANGED <<poolVars, session, auto_close_task, close_task>>
           ELSE /\ nconns < MaxConns
                /\ close_task' = IF existing # NoConn
                                 THEN [close_task EXCEPT ![existing] = "pending"]
                                 ELSE close_task
                /\ nconns' = new
                /\ student_id' = [student_id EXCEPT ![new] = i]
                /\ session' = [session EXCEPT ![new] = "open"]
                /\ last_activity' = [last_activity EXCEPT ![new] = now]
                /\ aufe_connections' = [aufe_connections EXCEPT ![i] = new]
                /\ auto_close_task' = [auto_close_task EXCEPT ![new] = "sleep"]
                /\ last_ret' = [last_ret EXCEPT ![i] = new]
        /\ stayed_active' = [stayed_active EXCEPT ![i] = TRUE]
        /\ just_returned' = i
        /\ UNCHANGED <<is_closed, authVars, health, request_cache, caller, now, retry,
                       evalVars, tokenVars,
                       close_log>>

\* ------------------------------------- cleanup_inactive_connections
\* line 1135: the identities whose pooled instance is not active.
Inactive ==
    {i \in Identities :
        aufe_connections[i] # NoConn /\ ~is_active(aufe_connections[i])}

\* The orders a list can hold the members of S in.  The dict is walked in the
\* order its keys were inserted, which the model does not follow: every order is
\* considered.
Orders(S) ==
    {s \in [1..Cardinality(S) -> S] :
        \A a, b \in 1..Cardinality(S) : a # b => s[a] # s[b]}

\* A close() on an instance that is closed already returns at once (line 788),
\* without an await, and the loop goes on to the next instance.
RECURSIVE Pending(_)
Pending(todo) ==
    IF todo = <<>> THEN <<>>
    ELSE IF CloseGuard(Head(todo)) THEN Pending(Tail(todo))
    ELSE todo

\* lines 1139-1150: the loop from its position todo up to the next await: the
\* first segment of the next close() that does not return at once, or the return.
CleanupLoop(t, todo, count, log, snap) ==
    LET rest == Pending(todo)
        counted == count + (Len(todo) - Len(rest))
    IN  IF rest = <<>>
        THEN /\ caller' = SetCaller(t, [IdleCaller EXCEPT !.op = "cleanup",
                                                          !.pc = "done",
                                                          !.count = counted,
                                                          !.snapshot = snap])
             /\ close_log' = log
             /\ UNCHANGED <<is_closed, auto_close_task, aufe_connections, session>>
        ELSE /\ CloseEnterState(Head(rest))
             /\ close_log' = CloseEnterLog(Head(rest), log)
             /\ caller' = SetCaller(t, [IdleCaller EXCEPT
                            !.op = "cleanup", !.conn = Head(rest),
                            !.todo = Tail(rest), !.count = counted,
                            !.snapshot = snap,
                            !.pc = IF MonitorRunning(Head(rest))
                                   THEN "close_await_monitor"
                                   ELSE "close_await_aclose"])

\* lines 1133-1141: the snapshot of the inactive instances and the first close().
cleanup_inactive_connections(t) ==
    /\ caller[t].pc = "idle"
    /\ \E todo \in Orders({aufe_connections[i] : i \in Inactive}) :
          CleanupLoop(t, todo, 0, close_log, {todo[j] : j \in 1..Len(todo)})
    /\ UNCHANGED <<nconns, student_id, authVars, health, last_activity, request_cache,
                   close_task, now, retry, evalVars, tokenVars>>
    /\ Decay

\* lines 1141-1150: a close() of the loop returns; the loop goes on.  (The await
\* of the monitor inside that close() is CallerCloseJoined.)
CleanupCloseDone(t) ==
    /\ caller[t].op = "cleanup"
    /\ caller[t].pc = "close_await_aclose"
    /\ CleanupLoop(t, caller[t].todo, caller[t].count + 1,
                   [close_log EXCEPT ![caller[t].conn].returned = TRUE],
                   caller[t].snapshot)
    /\ UNCHANGED <<nconns, student_id, authVars, health, last_activity, request_cache,
                   close_task, now, retry, evalVars, tokenVars>>
    /\ Decay

\* ---------------------------------------------------------------- time
Tick ==
    /\ now + TickSeconds <= MaxTime
    /\ now' = now + TickSeconds
    /\ UNCHANGED <<poolVars, is_closed, authVars, health, last_activity, session,
                   request_cache, auto_close_task, close_task, caller, retry,
                   evalVars, tokenVars, close_log>>
    /\ Decay

\* A finished call is taken note of and the handler is free again.
Dismiss(t) ==
    /\ caller[t].pc = "done"
    /\ caller' = SetCaller(t, IdleCaller)
    /\ UNCHANGED <<poolVars, is_closed, authVars, health, last_activity, session,
                   request_cache, auto_close_task, close_task, now, retry,
                   evalVars, tokenVars, close_log>>
    /\ Decay

\* ------------------------------------------------------- the pool
\* Spec: what the pool and the life cycle of its instances do.  No instance logs
\* in or sends requests here (SpecConn has those), so every instance stays healthy
\* and a monitor's health check sends nothing.
Next ==
    \/ \E i \in Identities : create_or_get_connection(i)
    \/ Tick
    \/ \E c \in Conns : MonitorWake(c)
    \/ \E c \in Conns : MonitorCancelled(c)
    \/ \E c \in Conns : MonitorCloseJoined(c)
    \/ \E c \in Conns : MonitorCloseDone(c)
    \/ \E c \in Conns : SpawnedClose(c)
    \/ \E c \in Conns : SpawnedCloseJoined(c)
    \/ \E c \in Conns : SpawnedCloseDone(c)
    \/ \E t \in Handlers, c \in Conns : CallerClose(t, c)
    \/ \E t \in Handlers : CallerCloseJoined(t)
    \/ \E t \in Handlers : CallerCloseDone(t)
    \/ \E t \in Handlers : cleanup_inactive_connections(t)
    \/ \E t \in Handlers : CleanupCloseDone(t)
    \/ \E t \in Handlers : Dismiss(t)

Spec == Init /\ [][Next]_vars

\* ------------------------------------------------------- retry_async
\* RetryConfig.retry_on_exceptions (line 135).
retry_on_exceptions == {"AUFEConnectionError", "AUFETimeoutError", "RequestError"}

\* lines 168-172 for login and uaap_login, which are wrapped with the default
\* RetryConfig: a raised exception of a retried kind leads to a sleep and another
\* attempt unless this was attempt max_attempts - 1; anything else is re-raised.
Raised(t, e) ==
    IF e \in retry_on_exceptions /\ caller[t].attempt < MAX_RETRIES - 1
    THEN SetCaller(t, [caller[t] EXCEPT !.pc = "retry_sleep"])
    ELSE Finish(t, e)

\* ---------------------------------------------------------------- login
\* lines 392-397: an attempt starts with the GET of login_auth.csp.  A closed
\* httpx client raises RuntimeError at once, which the "except Exception" of
\* lines 488-492 turns into AUFELoginError.
LoginAttempt(t, c, rec) ==
    IF session[c] = "open"
    THEN /\ caller' = SetCaller(t, [rec EXCEPT !.pc = "login_get"])
         /\ UNCHANGED <<logged_in, health>>
    ELSE /\ CanMarkError(c)
         /\ logged_in' = [logged_in EXCEPT ![c] = FALSE]
         /\ health' = [health EXCEPT ![c] = mark_error(@, "Exception")]
         /\ caller' = SetCaller(t, [rec EXCEPT !.pc = "done",
                                               !.result = "AUFELoginError"])

\* lines 375-377: activity_tracker, then the first attempt.
LoginCall(t, c) ==
    /\ caller[t].pc = "idle"
    /\ c \in Constructed
    /\ last_activity' = Touch(c)
    /\ LoginAttempt(t, c, [IdleCaller EXCEPT !.op = "login", !.conn = c])
    /\ UNCHANGED <<poolVars, is_closed, uaap_logged_in, twf_id, uaap_cookies, session,
                   request_cache, auto_close_task, close_task, now, retry,
                   evalVars, tokenVars, close_log>>
    /\ Decay

LoginGetOutcomes == {"RequestError", "no_TwfID", "no_RSA_KEY", "bad_numbers", "params"}

\* lines 398-470 and 483-492: the first response.
LoginGetDone(t, r) ==
    LET c == caller[t].conn IN
    /\ caller[t].pc = "login_get"
    /\ CASE r = "RequestError" ->
              /\ CanMarkError(c)
              /\ logged_in' = [logged_in EXCEPT ![c] = FALSE]
              /\ health' = [health EXCEPT ![c] = mark_error(@, "RequestError")]
              /\ caller' = Page(Raised(t, "AUFEConnectionError"), t, r)
              /\ UNCHANGED twf_id
         [] r = "no_TwfID" ->
              /\ caller' = Page(Finish(t, "False"), t, r)
              /\ UNCHANGED <<logged_in, health, twf_id>>
         [] r = "no_RSA_KEY" ->
              /\ twf_id' = [twf_id EXCEPT ![c] = "token"]
              /\ caller' = Page(Finish(t, "False"), t, r)
              /\ UNCHANGED <<logged_in, health>>
         [] r = "bad_numbers" ->       \* int() or the encryption raises
              /\ CanMarkError(c)
              /\ twf_id' = [twf_id EXCEPT ![c] = "token"]
              /\ logged_in' = [logged_in EXCEPT ![c] = FALSE]
              /\ health' = [health EXCEPT ![c] = mark_error(@, "Exception")]
              /\ caller' = Page(Finish(t, "AUFELoginError"), t, r)
         [] r = "params" ->            \* the POST of login_psw.csp is sent
              /\ twf_id' = [twf_id EXCEPT ![c] = "token"]
              /\ IF session[c] = "open"
                 THEN /\ caller' = Page(SetCaller(t, [caller[t] EXCEPT !.pc = "login_post",
                                                                    !.posts = @ + 1]), t, r)
                      /\ UNCHANGED <<logged_in, health>>
                 ELSE /\ CanMarkError(c)
                      /\ logged_in' = [logged_in EXCEPT ![c] = FALSE]
                      /\ health' = [health EXCEPT ![c] = mark_error(@, "Exception")]
                      /\ caller' = Page(Finish(t, "AUFELoginError"), t, r)
    /\ UNCHANGED <<poolVars, is_closed, uaap_logged_in, uaap_cookies, last_activity,
                   session, request_cache, auto_close_task, close_task, now, retry,
                   evalVars, tokenVars,
                   close_log>>
    /\ Decay

LoginPostOutcomes == {"RequestError", "Result1", "no_Result"}

\* lines 471-492: the second response.
LoginPostDone(t, r) ==
    LET c == caller[t].conn IN
    /\ caller[t].pc = "login_post"
    /\ CASE r = "RequestError" ->
              /\ CanMarkError(c)
              /\ logged_in' = [logged_in EXCEPT ![c] = FALSE]
              /\ health' = [health EXCEPT ![c] = mark_error(@, "RequestError")]
              /\ caller' = Page(Raised(t, "AUFEConnectionError"), t, r)
         [] r = "Result1" ->
              /\ logged_in' = [logged_in EXCEPT ![c] = TRUE]
              /\ caller' = Page(Finish(t, "True"), t, r)
              /\ UNCHANGED health
         [] r = "no_Result" ->
              /\ logged_in' = [logged_in EXCEPT ![c] = FALSE]
              /\ caller' = Page(Finish(t, "False"), t, r)
              /\ UNCHANGED health
    /\ UNCHANGED <<poolVars, is_closed, uaap_logged_in, twf_id, uaap_cookies,
                   last_activity, session, request_cache, auto_close_task, close_task,
                   now, retry, evalVars, tokenVars, close_log>>
    /\ Decay

\* lines 174-179 and 165: the wrapper's sleep is over; the next attempt.
LoginRetry(t) ==
    /\ caller[t].pc = "retry_sleep"
    /\ caller[t].op = "login"
    /\ LoginAttempt(t, caller[t].conn, [caller[t] EXCEPT !.attempt = @ + 1])
    /\ UNCHANGED <<poolVars, is_closed, uaap_logged_in, twf_id, uaap_cookies,
                   last_activity, session, request_cache, auto_close_task, close_task,
                   now, retry, evalVars, tokenVars, close_log>>
    /\ Decay

\* ----------------------------------------------------------- uaap_login
\* lines 583-586: an attempt starts with the GET of the login page; a closed
\* client raises RuntimeError, which lines 677-680 turn into AUFELoginError.
UaapAttempt(t, c, rec) ==
    IF session[c] = "open"
    THEN /\ caller' = SetCaller(t, [rec EXCEPT !.pc = "uaap_get"])
         /\ UNCHANGED health
    ELSE /\ CanMarkError(c)
         /\ health' = [health EXCEPT ![c] = mark_error(@, "Exception")]
         /\ caller' = SetCaller(t, [rec EXCEPT !.pc = "done",
                                               !.result = "AUFELoginError"])

\* lines 563-565: activity_tracker, then the first attempt.
UaapCall(t, c) ==
    /\ caller[t].pc = "idle"
    /\ c \in Constructed
    /\ last_activity' = Touch(c)
    /\ UaapAttempt(t, c, [IdleCaller EXCEPT !.op = "uaap_login", !.conn = c])
    /\ UNCHANGED <<poolVars, is_closed, authVars, session, request_cache,
                   auto_close_task, close_task, now, retry,
                   evalVars, tokenVars, close_log>>
    /\ Decay

UaapGetOutcomes == {"RequestError", "non200", "no_lt", "no_execution", "lt_no_value",
                    "tokens"}

\* A login page that is refused only for its status: not what C19 states.
UaapMissingOnlyStatus(r) == r = "non200"

\* lines 588-606: the early returns for a status other than 200, no lt input, no
\* execution input.
UaapMissing(r) == r \in {"non200", "no_lt", "no_execution"}

\* lines 588-648 and 673-680: the login page.
UaapGetDone(t, r) ==
    LET c == caller[t].conn IN
    /\ caller[t].pc = "uaap_get"
    /\ CASE r = "RequestError" ->
              /\ CanMarkError(c)
              /\ health' = [health EXCEPT ![c] = mark_error(@, "RequestError")]
              /\ caller' = Page(Raised(t, "AUFEConnectionError"), t, r)
         [] UaapMissing(r) ->
              /\ caller' = Page(Finish(t, "False"), t, r)
              /\ UNCHANGED health
         [] r = "lt_no_value" ->       \* _encrypt_password(password, None) raises
              /\ CanMarkError(c)
              /\ health' = [health EXCEPT ![c] = mark_error(@, "Exception")]
              /\ caller' = Page(Finish(t, "AUFELoginError"), t, r)
         [] OTHER ->                   \* the form is posted
              IF session[c] = "open"
              THEN /\ caller' = Page(SetCaller(t, [caller[t] EXCEPT !.pc = "uaap_post",
                                                                 !.posts = @ + 1]), t, r)
                   /\ UNCHANGED health
              ELSE /\ CanMarkError(c)
                   /\ health' = [health EXCEPT ![c] = mark_error(@, "Exception")]
                   /\ caller' = Page(Finish(t, "AUFELoginError"), t, r)
    /\ UNCHANGED <<poolVars, is_closed, authVars, last_activity, session,
                   request_cache, auto_close_task, close_task, now, retry,
                   evalVars, tokenVars, close_log>>
    /\ Decay

UaapPostOutcomes == {"RequestError", "302_Location", "302_no_Location",
                     "303_Location", "200_tipMsg", "200"}

\* line 653: what counts as the redirect of a successful login.
UaapRedirect(r) == r = "302_Location"

\* lines 650-680: the answer to the form.
UaapPostDone(t, r) ==
    LET c == caller[t].conn IN
    /\ caller[t].pc = "uaap_post"
    /\ CASE r = "RequestError" ->
              /\ CanMarkError(c)
              /\ health' = [health EXCEPT ![c] = mark_error(@, "RequestError")]
              /\ caller' = Page(Raised(t, "AUFEConnectionError"), t, r)
              /\ UNCHANGED <<uaap_logged_in, uaap_cookies>>
         [] r # "RequestError" /\ UaapRedirect(r) ->
              /\ uaap_cookies' = [uaap_cookies EXCEPT ![c] = "cookies"]
              /\ uaap_logged_in' = [uaap_logged_in EXCEPT ![c] = TRUE]
              /\ caller' = Page(Finish(t, "True"), t, r)
              /\ UNCHANGED health
         [] OTHER ->
              /\ caller' = Page(Finish(t, "False"), t, r)
              /\ UNCHANGED <<health, uaap_logged_in, uaap_cookies>>
    /\ UNCHANGED <<poolVars, is_closed, logged_in, twf_id, last_activity, session,
                   request_cache, auto_close_task, close_task, now, retry,
                   evalVars, tokenVars, close_log>>
    /\ Decay

\* lines 174-179 and 165: the wrapper's sleep is over; the next attempt.
UaapRetry(t) ==
    /\ caller[t].pc = "retry_sleep"
    /\ caller[t].op = "uaap_login"
    /\ UaapAttempt(t, caller[t].conn, [caller[t] EXCEPT !.attempt = @ + 1])
    /\ UNCHANGED <<poolVars, is_closed, authVars, last_activity, session,
                   request_cache, auto_close_task, close_task, now, retry,
                   evalVars, tokenVars, close_log>>
    /\ Decay

\* -------------------------------------------------------- response cache
\* A cache that serves an entry whatever its age: not what C14 states.
CacheHitAnyAge(c, k) == request_cache[c][k] # NoEntry

\* lines 358-366: the entry is served while younger than the TTL.
CacheHit(c, k) ==
    /\ request_cache[c][k] # NoEntry
    /\ now - request_cache[c][k].timestamp < CACHE_TTL

\* lines 360-366: the cache after a lookup of k (an expired entry is deleted).
AfterLookup(c, k) ==
    IF request_cache[c][k] # NoEntry /\ ~CacheHit(c, k)
    THEN [request_cache EXCEPT ![c][k] = NoEntry]
    ELSE request_cache

\* lines 348-356: _clear_cache on the entries e of one instance.
Swept(e) ==
    [k \in Keys |-> IF e[k] # NoEntry /\ now - e[k].timestamp > CACHE_TTL
                    THEN NoEntry ELSE e[k]]

\* lines 368-373: _cache_response, with its sweep at every tenth size.
Cached(cache, c, k, response) ==
    LET stored == [cache[c] EXCEPT ![k] = [response |-> response, timestamp |-> now]]
        size == Cardinality({j \in Keys : stored[j] # NoEntry})
    IN  [cache EXCEPT ![c] = IF size % 10 = 0 THEN Swept(stored) ELSE stored]

\* ------------------------------------------------------- model_request
\* lines 953-966 as called from line 872: the request is handed to the client.  A
\* closed client raises RuntimeError, which line 917 re-raises and line 856 turns
\* into the return of None.
Send(t, c, rec) ==
    IF session[c] = "open"
    THEN SetCaller(t, [rec EXCEPT !.pc = "req_http", !.sends = @ + 1])
    ELSE SetCaller(t, [rec EXCEPT !.pc = "done", !.result = "None"])

\* line 846: a reconnect comes first.
ReconnectFirst(c, force_reconnect) == force_reconnect \/ should_reconnect(health[c])

\* lines 809-851: activity_tracker, the cache lookup, then either the start of
\* _reconnect (which awaits session.aclose()) or the first attempt.
ModelRequest(t, c, k, use_cache, force_reconnect) ==
    LET rec == [IdleCaller EXCEPT !.op = "model_request", !.conn = c, !.key = k,
                                  !.use_cache = use_cache,
                                  !.force_reconnect = force_reconnect,
                                  !.was_closed = is_closed[c]]
    IN
    /\ caller[t].pc = "idle"
    /\ c \in Constructed
    /\ last_activity' = Touch(c)
    /\ IF use_cache /\ CacheHit(c, k)
       THEN /\ caller' = SetCaller(t, [rec EXCEPT !.pc = "done", !.result = "cached"])
            /\ UNCHANGED <<request_cache, session>>
       ELSE /\ request_cache' = IF use_cache THEN AfterLookup(c, k) ELSE request_cache
            /\ IF ReconnectFirst(c, force_reconnect)
               THEN /\ session' = Aclose(c)
                    /\ caller' = SetCaller(t, [rec EXCEPT !.pc = "req_reconnect",
                                                          !.reconnect = "awaiting"])
               ELSE /\ caller' = Send(t, c, rec)
                    /\ UNCHANGED session
    /\ UNCHANGED <<poolVars, is_closed, authVars, health, auto_close_task, close_task,
                   now, retry, evalVars, tokenVars, close_log>>
    /\ Decay

\* A reconnect that keeps the VPN login state: not what C29 states.
ReconnectedKeepsLogin(c) ==
    /\ session' = [session EXCEPT ![c] = "open"]
    /\ uaap_logged_in' = [uaap_logged_in EXCEPT ![c] = FALSE]
    /\ uaap_cookies' = [uaap_cookies EXCEPT ![c] = "None"]
    /\ health' = [health EXCEPT ![c] = mark_healthy(@)]
    /\ UNCHANGED <<logged_in, twf_id>>

\* A reconnect that forgets the UAAP login state: not what C28 states.
ReconnectedKeepsUaap(c) ==
    /\ session' = [session EXCEPT ![c] = "open"]
    /\ logged_in' = [logged_in EXCEPT ![c] = FALSE]
    /\ twf_id' = [twf_id EXCEPT ![c] = "None"]
    /\ health' = [health EXCEPT ![c] = mark_healthy(@)]
    /\ UNCHANGED <<uaap_logged_in, uaap_cookies>>

\* lines 975-985: _reconnect after its await: a new client, the login state and the
\* health record reset.
Reconnected(c) ==
    /\ session' = [session EXCEPT ![c] = "open"]
    /\ logged_in' = [logged_in EXCEPT ![c] = FALSE]
    /\ uaap_logged_in' = [uaap_logged_in EXCEPT ![c] = FALSE]
    /\ twf_id' = [twf_id EXCEPT ![c] = "None"]
    /\ uaap_cookies' = [uaap_cookies EXCEPT ![c] = "None"]
    /\ health' = [health EXCEPT ![c] = mark_healthy(@)]

\* lines 973-991: what the rest of _reconnect does once aclose() is over: "ok",
\* or an exception of aclose() or of _create_session(), which lines 989-991 turn
\* into AUFEConnectionError with nothing reset.
ReconnectOutcomes == {"ok", "Exception"}

\* lines 847-872: the reconnect is over.  Done, the first attempt is sent on the
\* new client; failed, its AUFEConnectionError leaves model_request, whose try
\* starts at line 850 only.
ReqReconnected(t, r) ==
    /\ caller[t].pc = "req_reconnect"
    /\ IF r = "ok"
       THEN /\ Reconnected(caller[t].conn)
            /\ caller' = SetCaller(t, [caller[t] EXCEPT !.pc = "req_http",
                                                        !.sends = @ + 1,
                                                        !.reconnect = "ok"])
       ELSE /\ caller' = SetCaller(t, [caller[t] EXCEPT
                            !.pc = "done", !.result = "AUFEConnectionError",
                            !.reconnect = "AUFEConnectionError"])
            /\ UNCHANGED <<session, authVars, health>>
    /\ UNCHANGED <<poolVars, is_closed, last_activity, request_cache, auto_close_task,
                   close_task, now, retry, evalVars, tokenVars, close_log>>
    /\ Decay

\* A retry loop that takes no attempt for its last: not what C17 states.
MoreAttemptsAlways(t) == TRUE

\* lines 867, 888, 898 and 909: the attempt was not the last of the loop.
MoreAttempts(t) == caller[t].attempt < MAX_RETRIES - 1

\* A model_request that caches nothing: not what C16 states.
CacheResultSkipped(t) == request_cache

HttpOutcomes == {"200_model", "200_unparsable", "non200", "RequestError", "Exception"}

\* lines 884-885, 894-895, 905-906: the error an attempt marks the health record with.
AttemptError(r) == IF r = "200_unparsable" THEN "AUFEParseError" ELSE "AUFEConnectionError"

\* lines 853-855: a result is cached when use_cache is set.
CacheResult(t) ==
    IF caller[t].use_cache
    THEN Cached(request_cache, caller[t].conn, caller[t].key, "model")
    ELSE request_cache

\* lines 872-927 and 852-858: the answer to an attempt of the retry loop.
ReqHttpDone(t, r) ==
    LET c == caller[t].conn
        marked == mark_error(health[c], AttemptError(r))
    IN
    /\ caller[t].pc = "req_http"
    /\ CASE r = "200_model" ->
              /\ health' = [health EXCEPT ![c] = mark_healthy(@)]
              /\ request_cache' = CacheResult(t)
              /\ caller' = Finish(t, "model")
              /\ UNCHANGED session
         [] r = "Exception" ->         \* not retried: model_request returns None
              /\ caller' = Finish(t, "None")
              /\ UNCHANGED <<health, request_cache, session>>
         [] r \in {"200_unparsable", "non200", "RequestError"} ->
              /\ CanMarkError(c)
              /\ health' = [health EXCEPT ![c] = marked]
              /\ UNCHANGED request_cache
              /\ IF MoreAttempts(t)
                 THEN /\ caller' = SetCaller(t, [caller[t] EXCEPT !.pc = "req_sleep"])
                      /\ UNCHANGED session
                 ELSE IF should_reconnect(marked)
                 THEN /\ session' = Aclose(c)
                      /\ caller' = SetCaller(t, [caller[t] EXCEPT
                                                   !.pc = "req_final_reconnect",
                                                   !.reconnect = "awaiting"])
                 ELSE /\ caller' = Finish(t, "None")
                      /\ UNCHANGED session
    /\ UNCHANGED <<poolVars, is_closed, authVars, last_activity, auto_close_task,
                   close_task, now, retry, evalVars, tokenVars, close_log>>
    /\ Decay

\* lines 891, 901, 912 and 867-872: the sleep between attempts is over.
ReqSleepDone(t) ==
    /\ caller[t].pc = "req_sleep"
    /\ caller' = Send(t, caller[t].conn, [caller[t] EXCEPT !.attempt = @ + 1])
    /\ UNCHANGED <<poolVars, is_closed, authVars, health, last_activity, session,
                   request_cache, auto_close_task, close_task, now, retry,
                   evalVars, tokenVars, close_log>>
    /\ Decay

\* lines 922-935: the reconnect after the last attempt is over.  Done, the final
\* attempt is sent on the new client; failed, its AUFEConnectionError is caught
\* at line 856 and model_request returns None.
ReqFinalReconnected(t, r) ==
    /\ caller[t].pc = "req_final_reconnect"
    /\ IF r = "ok"
       THEN /\ Reconnected(caller[t].conn)
            /\ caller' = SetCaller(t, [caller[t] EXCEPT !.pc = "req_final_http",
                                                        !.sends = @ + 1,
                                                        !.reconnect = "ok"])
       ELSE /\ caller' = SetCaller(t, [caller[t] EXCEPT
                            !.pc = "done", !.result = "None",
                            !.reconnect = "AUFEConnectionError"])
            /\ UNCHANGED <<session, authVars, health>>
    /\ UNCHANGED <<poolVars, is_closed, last_activity, request_cache, auto_close_task,
                   close_task, now, retry, evalVars, tokenVars, close_log>>
    /\ Decay

\* lines 937-951: how often the final attempt marks the health record: the error
\* raised for another status than 200 inside the try is caught by its own except.
FinalMarks(r) == IF r = "non200" THEN 2 ELSE 1

\* lines 935-951 and 852-858: the answer to the final attempt.
ReqFinalHttpDone(t, r) ==
    LET c == caller[t].conn
        once == mark_error(health[c], "AUFEConnectionError")
    IN
    /\ caller[t].pc = "req_final_http"
    /\ IF r = "200_model"
       THEN /\ health' = [health EXCEPT ![c] = mark_healthy(@)]
            /\ request_cache' = CacheResult(t)
            /\ caller' = Finish(t, "model")
       ELSE /\ health[c].error_count + FinalMarks(r) <= MaxErrorCount
            /\ health' = [health EXCEPT ![c] =
                            IF FinalMarks(r) = 2
                            THEN mark_error(once, "AUFEConnectionError") ELSE once]
            /\ caller' = Finish(t, "None")
            /\ UNCHANGED request_cache
    /\ UNCHANGED <<poolVars, is_closed, authVars, last_activity, session,
                   auto_close_task, close_task, now, retry,
                   evalVars, tokenVars, close_log>>
    /\ Decay

\* ------------------------------------------------------- one instance
\* SpecConn: one instance, as create_or_get_connection("...", "s1") has just
\* constructed and pooled it, and every operation on it.
InitConn ==
    /\ aufe_connections = [i \in Identities |-> IF i = "s1" THEN 1 ELSE NoConn]
    /\ nconns = 1
    /\ student_id = [c \in Conns |-> IF c = 1 THEN "s1" ELSE "unset"]
    /\ is_closed = [c \in Conns |-> FALSE]
    /\ logged_in = [c \in Conns |-> FALSE]
    /\ uaap_logged_in = [c \in Conns |-> FALSE]
    /\ twf_id = [c \in Conns |-> "None"]
    /\ uaap_cookies = [c \in Conns |-> "None"]
    /\ health = [c \in Conns |-> HealthInit]
    /\ last_activity = [c \in Conns |-> 0]
    /\ session = [c \in Conns |-> IF c = 1 THEN "open" ELSE "unset"]
    /\ request_cache = [c \in Conns |-> [k \in Keys |-> NoEntry]]
    /\ auto_close_task = [c \in Conns |-> IF c = 1 THEN "sleep" ELSE "unset"]
    /\ close_task = [c \in Conns |-> "none"]
    /\ caller = [t \in Callers |-> IdleCaller]
    /\ now = 0
    /\ retry = NoRetry /\ SideIdle
    /\ last_ret = [i \in Identities |-> IF i = "s1" THEN 1 ELSE NoConn]
    /\ stayed_active = [i \in Identities |-> i = "s1"]
    /\ just_returned = "s1"
    /\ close_log = [c \in Conns |-> NoCloseLog]

NextConn ==
    \/ Tick
    \/ \E c \in Conns : MonitorWake(c)
    \/ \E c \in Conns, r \in ProbeOutcomes : MonitorProbeDone(c, r)
    \/ \E c \in Conns : MonitorCancelled(c)
    \/ \E c \in Conns : MonitorCloseJoined(c)
    \/ \E c \in Conns : MonitorCloseDone(c)
    \/ \E t \in Callers, c \in Conns : CallerClose(t, c)
    \/ \E t \in Callers : CallerCloseJoined(t)
    \/ \E t \in Callers : CallerCloseDone(t)
    \/ \E t \in Handlers, c \in Conns : LoginCall(t, c)
    \/ \E t \in Handlers, r \in LoginGetOutcomes : LoginGetDone(t, r)
    \/ \E t \in Handlers, r \in LoginPostOutcomes : LoginPostDone(t, r)
    \/ \E t \in Handlers : LoginRetry(t)
    \/ \E t \in Handlers, c \in Conns : UaapCall(t, c)
    \/ \E t \in Handlers, r \in UaapGetOutcomes : UaapGetDone(t, r)
    \/ \E t \in Handlers, r \in UaapPostOutcomes : UaapPostDone(t, r)
    \/ \E t \in Handlers : UaapRetry(t)
    \/ \E t \in Handlers, c \in Conns, k \in Keys, u \in BOOLEAN, f \in BOOLEAN :
          ModelRequest(t, c, k, u, f)
    \/ \E t \in Handlers, r \in ReconnectOutcomes : ReqReconnected(t, r)
    \/ \E t \in Handlers, r \in HttpOutcomes : ReqHttpDone(t, r)
    \/ \E t \in Handlers : ReqSleepDone(t)
    \/ \E t \in Handlers, r \in ReconnectOutcomes : ReqFinalReconnected(t, r)
    \/ \E t \in Handlers, r \in HttpOutcomes : ReqFinalHttpDone(t, r)
    \/ \E t \in Callers : Dismiss(t)

SpecConn == InitConn /\ [][NextConn]_vars

\* ====================================================== properties of the pool
\* The non-closed instances constructed for identity i.
Live(i) == {c \in Constructed : student_id[c] = i /\ ~is_closed[c]}

\* C1: for every identity, a create_or_get_connection call that follows another one
\* for the same identity, the instance returned by the first having been active
\* (not closed, inside the inactivity window, healthy) in every state in between,
\* returns that same instance.
C1_SameInstanceWhileActive ==
    [][\A i \in Identities :
          (just_returned' = i /\ last_ret[i] # NoConn /\ stayed_active[i])
              => last_ret'[i] = last_ret[i]]_vars

\* C2: at every instant at most one non-closed instance exists for each identity.
C2_OneLivePerIdentity == \A i \in Identities : Cardinality(Live(i)) <= 1

\* C6: once close() has been called on an instance, is_active() is false for it in
\* every later state, the closed flag is never taken back, and no later
\* create_or_get_connection call for its identity returns it.
C6_ClosedIsNeverReturned ==
    [][\A c \in Constructed :
          is_closed[c] =>
              /\ is_closed'[c]
              /\ ~is_active(c)'
              /\ \A i \in Identities : just_returned' = i => last_ret'[i] # c]_vars

\* C6, its case: an instance that a close() call closed, and the
\* create_or_get_connection call for its identity that has just returned another
\* instance.
C6_Witness ==
    \E c \in Constructed :
        /\ is_closed[c]
        /\ close_log[c].entered > 0
        /\ just_returned = student_id[c]
        /\ last_ret[student_id[c]] # c
        /\ ~is_closed[last_ret[student_id[c]]]

\* C9: the pool maps no identity to an instance whose closed flag is set.
C9_NoClosedEntry ==
    \A i \in Identities :
        aufe_connections[i] # NoConn => ~is_closed[aufe_connections[i]]

\* ================================================ properties of one instance
\* The handler t has, in this step, got the result of a call of operation op.
Returns(t, op) ==
    /\ caller[t].pc # "done"
    /\ caller'[t].pc = "done"
    /\ caller'[t].op = op

\* C3: in every state of an instance, _uaap_logged_in implies _logged_in.
C3_UaapImpliesVpn == \A c \in Constructed : uaap_logged_in[c] => logged_in[c]

\* C4: when a login() or uaap_login() call fails (returns False or raises), both
\* _logged_in and _uaap_logged_in are False at its return.
C4_FailedLoginClearsFlags ==
    [][\A t \in Handlers :
          ((Returns(t, "login") \/ Returns(t, "uaap_login"))
              /\ caller'[t].result # "True")
          => (~logged_in'[caller'[t].conn] /\ ~uaap_logged_in'[caller'[t].conn])]_vars

\* C5: when login() returns True, login_status() is True in the state it returns in.
C5_LoginTrueGivesStatus ==
    [][\A t \in Handlers, c \in Constructed :
          (Returns(t, "login") /\ caller'[t].conn = c /\ caller'[t].result = "True")
          => login_status(c)']_vars

\* C7: once the close() call that closed an instance has returned, the monitor
\* task is done and the instance holds no open httpx client, in every later state.
C7_ClosedHoldsNothing ==
    \A c \in Constructed :
        close_log[c].returned =>
            (auto_close_task[c] = "done" /\ session[c] # "open")

\* C8: however many close() calls are made on an instance, one after the other or
\* overlapping with each other, with the monitor's own close() or with a request in
\* flight: only one of them gets past the early return, the monitor is cancelled
\* at most once, the pool entry is deleted at most once and close() releases the
\* client at most once; and when that close() returns each of the three has
\* happened exactly once: the monitor is done, the entry is gone, and the client
\* the instance holds is closed.
C8_CloseOnce ==
    [][\A c \in Constructed :
          /\ close_log'[c].entered <= 1
          /\ close_log'[c].cancels <= 1
          /\ close_log'[c].unregs <= 1
          /\ close_log'[c].releases <= 1
          /\ (~close_log[c].returned /\ close_log'[c].returned) =>
                /\ close_log'[c].cancels = 1
                /\ close_log'[c].unregs = 1
                /\ close_log'[c].releases = 1
                /\ auto_close_task'[c] = "done"
                /\ aufe_connections'[student_id[c]] # c
                /\ session'[c] # "open"]_vars

\* ============================================================ retry_async
\* SpecRetry: the wrapper retry_async(config) puts around an operation, for every
\* RetryConfig of the sets below and every course the operation can take.  Delays
\* are in milliseconds; a draw of random.random() is given in hundredths.
Strategies == {"immediate", "fixed_delay", "exponential_backoff", "linear_backoff"}
BaseDelays == {1000, 2000}
MaxDelays == {3000, 60000}
JitterSamples == {0, 50, 99}
Outcomes == {"ok", "AUFEParseError", "AUFELoginError"} \cup retry_on_exceptions

RetryConfigs ==
    [max_attempts : 0..MaxAttempts, strategy : Strategies, base_delay : BaseDelays,
     max_delay : MaxDelays, exponential_base : {RETRY_EXPONENTIAL_BASE},
     jitter : BOOLEAN]

RECURSIVE Pow(_, _)
Pow(b, n) == IF n = 0 THEN 1 ELSE b * Pow(b, n - 1)

Min(a, b) == IF a <= b THEN a ELSE b

\* A delay that max_delay does not cap: not what C30 states.
calculate_delay_uncapped(attempt, config, r) ==
    LET delay ==
          CASE config.strategy = "immediate" -> 0
            [] config.strategy = "fixed_delay" -> config.base_delay
            [] config.strategy = "exponential_backoff" ->
                 config.base_delay * Pow(config.exponential_base, attempt)
            [] config.strategy = "linear_backoff" ->
                 config.base_delay * (attempt + 1)
            [] OTHER -> config.base_delay
    IN  IF config.jitter /\ delay > 0
        THEN (delay * (100 + r)) \div 200
        ELSE delay

\* A delay that grows with the attempt whatever the strategy: not what C10 states
\* for fixed_delay.
calculate_delay_growing(attempt, config, r) == config.base_delay * (attempt + 1)

\* _calculate_delay (lines 191-211); r is the draw of random.random().
calculate_delay(attempt, config, r) ==
    LET delay ==
          CASE config.strategy = "immediate" -> 0
            [] config.strategy = "fixed_delay" -> config.base_delay
            [] config.strategy = "exponential_backoff" ->
                 Min(config.base_delay * Pow(config.exponential_base, attempt),
                     config.max_delay)
            [] config.strategy = "linear_backoff" ->
                 Min(config.base_delay * (attempt + 1), config.max_delay)
            [] OTHER -> config.base_delay
    IN  IF config.jitter /\ delay > 0
        THEN (delay * (100 + r)) \div 200
        ELSE delay

\* The wrapper before its call.  calls, failures, delays and op_raised are
\* history: how often the operation was executed, how often it raised an exception
\* of a retried kind, the delays slept, and what the operation raised last.
RetryStart(config) ==
    [config |-> config, pc |-> "idle", attempt |-> 0, last_exception |-> "None",
     result |-> "none", calls |-> 0, failures |-> 0, delays |-> <<>>,
     op_raised |-> "None"]

InitRetry ==
    /\ EmptyPool
    /\ retry \in {RetryStart(config) : config \in RetryConfigs}
    /\ SideIdle

\* lines 163-165 and 184-185: the wrapper is called.  With no attempt to make the
\* loop is skipped and the wrapper returns None.
RetryWrapperCall ==
    /\ retry.pc = "idle"
    /\ retry' = IF retry.config.max_attempts = 0
                THEN [retry EXCEPT !.pc = "returned", !.result = "None"]
                ELSE [retry EXCEPT !.pc = "call"]
    /\ UNCHANGED <<connVars, evalVars, tokenVars>>

\* A wrapper that takes every exception for a retried kind: not what C11 states.
RetryableAlways(o) == TRUE

\* line 168: the except clause of the retried kinds takes the exception.
Retryable(o) == o \in retry_on_exceptions

\* A wrapper that never takes an attempt for the last one: it sleeps after every
\* failure, which is what C12 excludes.
LastAttemptNever(r) == FALSE

\* line 171: the attempt was the last one.
LastAttempt(r) == r.attempt = r.config.max_attempts - 1

\* lines 166-185: the operation is awaited and returns, or raises o.
RetryAttempt(o, r) ==
    /\ retry.pc = "call"
    /\ r = 0 \/ retry.config.jitter
    /\ retry' =
         IF o = "ok"
         THEN [retry EXCEPT !.pc = "returned", !.result = "ok", !.calls = @ + 1]
         ELSE IF Retryable(o)
         THEN IF LastAttempt(retry)
              THEN [retry EXCEPT !.pc = "raised", !.result = o,
                                 !.last_exception = o, !.op_raised = o,
                                 !.calls = @ + 1, !.failures = @ + 1]
              ELSE [retry EXCEPT !.pc = "sleep", !.last_exception = o,
                                 !.op_raised = o,
                                 !.calls = @ + 1, !.failures = @ + 1,
                                 !.delays = Append(@,
                                     calculate_delay(retry.attempt, retry.config, r))]
         ELSE [retry EXCEPT !.pc = "raised", !.result = o, !.op_raised = o,
                            !.calls = @ + 1]
    /\ UNCHANGED <<connVars, evalVars, tokenVars>>

\* lines 179, 165 and 184-185: the sleep is over; the next attempt, or, when the
\* range of the loop is used up, the last exception is raised.
RetrySleepDone ==
    /\ retry.pc = "sleep"
    /\ retry' = IF retry.attempt + 1 < retry.config.max_attempts
                THEN [retry EXCEPT !.pc = "call", !.attempt = @ + 1]
                ELSE [retry EXCEPT !.pc = "raised", !.result = retry.last_exception]
    /\ UNCHANGED <<connVars, evalVars, tokenVars>>

NextRetry ==
    \/ RetryWrapperCall
    \/ \E o \in Outcomes, r \in JitterSamples : RetryAttempt(o, r)
    \/ RetrySleepDone

SpecRetry == InitRetry /\ [][NextRetry]_vars

\* The event loop runs a task that can run: the wrapper's call is started, an
\* awaited operation ends and a sleep ends.
SpecRetryLive == SpecRetry /\ WF_vars(NextRetry)

\* C10: with jitter off, an operation that raises exceptions of a retried kind k
\* times, k below max_attempts, and then succeeds has been executed k + 1 times
\* when the wrapper returns its result, after k sleeps, each of base_delay under
\* fixed_delay; the wrapper gives up on such exceptions only after max_attempts
\* executions; and with max_attempts 3, fixed_delay, base_delay 1 s and k = 2 the
\* sleeps are two of 1 s.
C10_RetryCounts ==
    /\ (retry.pc = "returned" /\ retry.result = "ok" /\ ~retry.config.jitter) =>
          /\ retry.failures < retry.config.max_attempts
          /\ retry.calls = retry.failures + 1
          /\ Len(retry.delays) = retry.failures
          /\ retry.config.strategy = "fixed_delay" =>
                \A j \in 1..Len(retry.delays) : retry.delays[j] = retry.config.base_delay
    /\ (retry.pc = "raised" /\ retry.result \in retry_on_exceptions) =>
          retry.calls = retry.config.max_attempts
    /\ (/\ retry.pc = "returned" /\ retry.result = "ok" /\ ~retry.config.jitter
        /\ retry.config.max_attempts = 3 /\ retry.config.strategy = "fixed_delay"
        /\ retry.config.base_delay = 1000 /\ retry.failures = 2) =>
          retry.delays = <<1000, 1000>>

\* C10, its case: max_attempts 3, fixed_delay, base_delay 1 s, jitter off, and the
\* operation has succeeded at its third execution.
C10_Witness ==
    /\ retry.pc = "returned"
    /\ retry.result = "ok"
    /\ ~retry.config.jitter
    /\ retry.config.max_attempts = 3
    /\ retry.config.strategy = "fixed_delay"
    /\ retry.config.base_delay = 1000
    /\ retry.failures = 2
    /\ retry.calls = 3

\* C11: once the operation has raised an exception that is not of a retried kind,
\* the wrapper has raised that same exception to its caller, without another
\* execution and without a sleep after it; when it is the first thing the
\* operation raises, the operation was executed once and nothing was slept.
C11_NonRetryablePropagates ==
    (retry.op_raised # "None" /\ retry.op_raised \notin retry_on_exceptions) =>
        /\ retry.pc = "raised"
        /\ retry.result = retry.op_raised
        /\ retry.calls = retry.failures + 1
        /\ Len(retry.delays) = retry.failures
        /\ retry.failures = 0 => (retry.calls = 1 /\ retry.delays = <<>>)

\* C11, its case: max_attempts 2 and an operation whose first execution raised
\* AUFELoginError.
C11_Witness ==
    /\ retry.config.max_attempts = 2
    /\ retry.op_raised = "AUFELoginError"
    /\ retry.pc = "raised"
    /\ retry.calls = 1

\* The wrapper is over: it has returned or raised.
RetryOver == retry.pc \in {"returned", "raised"}

\* C12: with max_attempts at least 1, the wrapper that raises an exception of a
\* retried kind has executed the operation max_attempts times, every execution
\* having failed, has slept max_attempts - 1 times and raises what the last
\* execution raised; it never sleeps after the last attempt, never executes the
\* operation more than max_attempts times, never returns without the operation's
\* result, and always comes to an end.
C12_ExhaustionStops ==
    /\ [](retry.config.max_attempts >= 1 =>
            /\ (retry.pc = "raised" /\ retry.result \in retry_on_exceptions) =>
                  /\ retry.calls = retry.config.max_attempts
                  /\ retry.failures = retry.config.max_attempts
                  /\ Len(retry.delays) = retry.config.max_attempts - 1
                  /\ retry.result = retry.op_raised
            /\ retry.pc = "sleep" => retry.attempt < retry.config.max_attempts - 1
            /\ retry.calls <= retry.config.max_attempts
            /\ Len(retry.delays) <= retry.calls
            /\ retry.pc = "returned" => retry.result = "ok")
    /\ <>RetryOver

\* C12, its case: three executions have all failed with exceptions of retried
\* kinds and the wrapper has raised the last one.
C12_Witness ==
    /\ retry.config.max_attempts = 3
    /\ retry.pc = "raised"
    /\ retry.failures = 3
    /\ Len(retry.delays) = 2
    /\ retry.result = retry.op_raised

\* ======================================================= ConnectionHealth
\* SpecHealth: ConnectionHealth records, one per slot of health, each taken
\* through every sequence of mark_error and mark_healthy calls from its
\* construction.
ErrorKinds == {"AUFEConnectionError", "AUFEParseError", "RequestError", "Exception"}

InitHealth == EmptyPool /\ retry = NoRetry /\ SideIdle

HealthMarkError(c, e) ==
    /\ CanMarkError(c)
    /\ health' = [health EXCEPT ![c] = mark_error(@, e)]
    /\ UNCHANGED <<poolVars, is_closed, authVars, last_activity, session,
                   request_cache, auto_close_task, close_task, caller, now, retry,
                   evalVars, tokenVars,
                   histVars>>

HealthMarkHealthy(c) ==
    /\ health' = [health EXCEPT ![c] = mark_healthy(@)]
    /\ UNCHANGED <<poolVars, is_closed, authVars, last_activity, session,
                   request_cache, auto_close_task, close_task, caller, now, retry,
                   evalVars, tokenVars,
                   histVars>>

NextHealth ==
    \/ \E c \in Conns, e \in ErrorKinds : HealthMarkError(c, e)
    \/ \E c \in Conns : HealthMarkHealthy(c)

SpecHealth == InitHealth /\ [][NextHealth]_vars

\* C13: whatever state a health record is in, should_reconnect() is true after
\* three mark_error calls in a row and false after a mark_healthy call; and every
\* mark_error or mark_healthy step taken leaves the record that way (a record
\* that has counted three errors asks for a reconnect, a record just marked
\* healthy does not).
C13_ShouldReconnect ==
    [][\A c \in Conns :
          /\ \A e1, e2, e3 \in ErrorKinds :
                should_reconnect(
                    mark_error(mark_error(mark_error(health[c], e1), e2), e3))
          /\ ~should_reconnect(mark_healthy(health[c]))
          /\ (health'[c] # health[c] /\ health'[c].is_healthy) =>
                ~should_reconnect(health'[c])
          /\ (health'[c] # health[c] /\ health'[c].error_count >= 3) =>
                should_reconnect(health'[c])]_vars

\* C13, its case: a record after three mark_error calls in a row.
C13_Witness ==
    \E c \in Conns :
        /\ health[c].error_count = 3
        /\ ~health[c].is_healthy
        /\ should_reconnect(health[c])

\* ===================================================== the typed request
\* The handler t calls model_request in this step.
Requests(t) == caller[t].pc = "idle" /\ caller'[t].op = "model_request"

\* C14: a model_request call with use_cache whose key was stored less than the TTL
\* ago returns the stored value in the same step, with no reconnect, no HTTP call
\* and the health record untouched; the same call made when the TTL or more has
\* passed since the store does not return the stored value and deletes the entry.
C14_CacheWindow ==
    [][\A t \in Handlers, c \in Constructed, k \in Keys :
          (/\ Requests(t)
           /\ caller'[t].conn = c /\ caller'[t].key = k /\ caller'[t].use_cache
           /\ request_cache[c][k] # NoEntry)
          => IF now - request_cache[c][k].timestamp < CACHE_TTL
             THEN /\ caller'[t].pc = "done"
                  /\ caller'[t].result = "cached"
                  /\ session' = session
                  /\ health' = health
                  /\ request_cache' = request_cache
             ELSE /\ caller'[t].result # "cached"
                  /\ request_cache'[c][k] = NoEntry]_vars

\* C14, its case: a call has returned the stored value of an entry that was
\* stored before the call.
C14_Witness ==
    \E t \in Handlers, c \in Constructed, k \in Keys :
        /\ caller[t].op = "model_request"
        /\ caller[t].conn = c /\ caller[t].key = k
        /\ caller[t].pc = "done" /\ caller[t].result = "cached"
        /\ request_cache[c][k] # NoEntry
        /\ now > request_cache[c][k].timestamp

\* C15: a model_request whose attempts are used up, the attempt after the reconnect
\* included, without a decoded model ends by raising AUFEConnectionError or
\* AUFEParseError to its caller, not by returning a value, and the health record
\* is unhealthy when it ends.
C15_ExhaustionRaises ==
    [][\A t \in Handlers, c \in Constructed :
          (/\ Returns(t, "model_request")
           /\ caller[t].pc = "req_final_http"
           /\ caller'[t].conn = c
           /\ caller'[t].result # "model")
          => /\ caller'[t].result \in {"AUFEConnectionError", "AUFEParseError"}
             /\ ~health'[c].is_healthy]_vars

\* C16: when model_request returns a model decoded from a response, on whichever
\* attempt, the health record is healthy with error_count 0 in the state it
\* returns in, and with use_cache the model is stored under the request's key
\* with the time of the return, so that the entry is inside the TTL.
C16_SuccessMarksAndStores ==
    [][\A t \in Handlers, c \in Constructed, k \in Keys :
          (/\ Returns(t, "model_request")
           /\ caller'[t].conn = c /\ caller'[t].key = k
           /\ caller'[t].result = "model")
          => /\ health'[c].is_healthy
             /\ health'[c].error_count = 0
             /\ caller'[t].use_cache =>
                   /\ request_cache'[c][k] # NoEntry
                   /\ request_cache'[c][k].response = "model"
                   /\ request_cache'[c][k].timestamp = now'
                   /\ now' - request_cache'[c][k].timestamp < CACHE_TTL]_vars

\* C16, its case: a call with use_cache has returned a model decoded at a later
\* attempt than the first, and the entry is in the cache.
C16_Witness ==
    \E t \in Handlers, c \in Constructed, k \in Keys :
        /\ caller[t].op = "model_request" /\ caller[t].pc = "done"
        /\ caller[t].conn = c /\ caller[t].key = k
        /\ caller[t].result = "model"
        /\ caller[t].use_cache
        /\ caller[t].sends > 1
        /\ request_cache[c][k] # NoEntry
        /\ health[c].is_healthy

\* How far a model_request has got: every step of it gets further.
ReqRank(rec) ==
    CASE rec.pc = "req_reconnect" -> 0
      [] rec.pc = "req_http" -> 1 + 2 * rec.attempt
      [] rec.pc = "req_sleep" -> 2 + 2 * rec.attempt
      [] rec.pc = "req_final_reconnect" -> 2 * MAX_RETRIES + 1
      [] rec.pc = "req_final_http" -> 2 * MAX_RETRIES + 2
      [] OTHER -> 2 * MAX_RETRIES + 3

\* C17 as stated: a model_request whose last attempt of the loop fails with a
\* failure the loop retries starts one reconnect, after which it issues one more
\* HTTP call and then ends; it never issues more than max_attempts + 1 HTTP calls,
\* and every step of it brings it nearer to its end.
C17_OneReconnectCycle ==
    [][\A t \in Handlers, c \in Constructed :
          (/\ caller[t].op = "model_request"
           /\ caller[t].pc # "done"
           /\ caller[t].conn = c
           /\ caller'[t] # caller[t])
          => /\ caller'[t].op = "model_request"
             /\ ReqRank(caller'[t]) > ReqRank(caller[t])
             /\ caller'[t].sends <= MAX_RETRIES + 1
             /\ caller'[t].attempt <= MAX_RETRIES - 1
             /\ (/\ caller[t].pc = "req_http"
                 /\ caller[t].attempt = MAX_RETRIES - 1
                 /\ health'[c].error_count > health[c].error_count)
                => (caller'[t].pc = "req_final_reconnect" /\ session'[c] # "open")
             /\ caller[t].pc = "req_final_reconnect"
                => /\ caller'[t].pc = "req_final_http"
                   /\ caller'[t].sends = caller[t].sends + 1
                   /\ session'[c] = "open"
             /\ caller[t].pc = "req_final_http"
                => (caller'[t].pc = "done" /\ caller'[t].sends = caller[t].sends)]_vars

\* C17 as amended: a model_request whose last attempt of the loop fails with a
\* failure the loop retries starts one reconnect; when the reconnect is done it
\* issues one more HTTP call and then ends, and when the reconnect fails it ends
\* without another HTTP call, returning None.  It never issues more than
\* max_attempts + 1 HTTP calls, and every step of it brings it nearer to its end.
C17_ReconnectThenAttempt ==
    [][\A t \in Handlers, c \in Constructed :
          (/\ caller[t].op = "model_request"
           /\ caller[t].pc # "done"
           /\ caller[t].conn = c
           /\ caller'[t] # caller[t])
          => /\ caller'[t].op = "model_request"
             /\ ReqRank(caller'[t]) > ReqRank(caller[t])
             /\ caller'[t].sends <= MAX_RETRIES + 1
             /\ caller'[t].attempt <= MAX_RETRIES - 1
             /\ (/\ caller[t].pc = "req_http"
                 /\ caller[t].attempt = MAX_RETRIES - 1
                 /\ health'[c].error_count > health[c].error_count)
                => (caller'[t].pc = "req_final_reconnect" /\ session'[c] # "open")
             /\ caller[t].pc = "req_final_reconnect"
                => \/ /\ caller'[t].reconnect = "ok"
                      /\ caller'[t].pc = "req_final_http"
                      /\ caller'[t].sends = caller[t].sends + 1
                      /\ session'[c] = "open"
                   \/ /\ caller'[t].reconnect = "AUFEConnectionError"
                      /\ caller'[t].pc = "done"
                      /\ caller'[t].result = "None"
                      /\ caller'[t].sends = caller[t].sends
             /\ caller[t].pc = "req_final_http"
                => (caller'[t].pc = "done" /\ caller'[t].sends = caller[t].sends)]_vars

\* C17, its case: a call has ended after max_attempts failed attempts, the
\* reconnect and one more HTTP call.
C17_Witness ==
    \E t \in Handlers :
        /\ caller[t].op = "model_request" /\ caller[t].pc = "done"
        /\ caller[t].attempt = MAX_RETRIES - 1
        /\ caller[t].reconnect = "ok"
        /\ caller[t].sends = MAX_RETRIES + 1

\* C18: a model_request called on an instance that is closed already never returns
\* a model or a cached value to its caller.
C18_ClosedNeverSucceeds ==
    [][\A t \in Handlers :
          (Returns(t, "model_request") /\ caller'[t].was_closed)
          => caller'[t].result \notin {"model", "cached"}]_vars

\* ============================================ properties of the two logins
\* C19: when the login page that uaap_login() has fetched has no lt input or no
\* execution input, the call ends there returning False: it issues no POST from
\* then on (none at all if this was its first page) and leaves _uaap_logged_in
\* as it was.
C19_MissingTokenNoPost ==
    [][\A t \in Handlers, c \in Constructed :
          (/\ caller[t].pc = "uaap_get"
           /\ caller[t].conn = c
           /\ caller'[t].pc # "uaap_get"
           /\ caller'[t].page \in {"no_lt", "no_execution"})
          => /\ caller'[t].pc = "done"
             /\ caller'[t].result = "False"
             /\ caller'[t].posts = caller[t].posts
             /\ caller[t].attempt = 0 => caller'[t].posts = 0
             /\ uaap_logged_in'[c] = uaap_logged_in[c]]_vars

\* C19, its case: a uaap_login() call has ended on a page without the lt input
\* or without the execution input, with no POST issued and the flag unset.
C19_Witness ==
    \E t \in Handlers :
        /\ caller[t].op = "uaap_login" /\ caller[t].pc = "done"
        /\ caller[t].page \in {"no_lt", "no_execution"}
        /\ caller[t].result = "False"
        /\ caller[t].posts = 0
        /\ ~uaap_logged_in[caller[t].conn]

\* C20: a login() whose first response has no TwfID or no RSA_ENCRYPT_KEY, or
\* whose second response has no <Result>1</Result>, ends at that response
\* without another attempt, returns False, and login_status() is False in the
\* state it returns in.
C20_RejectionEndsLogin ==
    [][\A t \in Handlers, c \in Constructed :
          (/\ caller[t].pc \in {"login_get", "login_post"}
           /\ caller[t].conn = c
           /\ caller'[t].pc # caller[t].pc
           /\ caller'[t].page \in {"no_TwfID", "no_RSA_KEY", "no_Result"})
          => /\ caller'[t].pc = "done"
             /\ caller'[t].result = "False"
             /\ caller'[t].attempt = caller[t].attempt
             /\ ~login_status(c)']_vars

\* ====================================================== the monitor task
\* SpecMonitor: one pooled instance with its monitor, the clock, login() calls
\* (which touch last_activity, set _logged_in and mark errors) and close() calls.
\* SpecMonitorLive adds what the event loop guarantees: time passes, a task that
\* can run is run, and an awaited call ends.
NextMonitor ==
    \/ Tick
    \/ \E c \in Conns : MonitorWake(c)
    \/ \E c \in Conns, r \in ProbeOutcomes : MonitorProbeDone(c, r)
    \/ \E c \in Conns : MonitorCancelled(c)
    \/ \E c \in Conns : MonitorCloseJoined(c)
    \/ \E c \in Conns : MonitorCloseDone(c)
    \/ \E t \in Callers, c \in Conns : CallerClose(t, c)
    \/ \E t \in Callers : CallerCloseJoined(t)
    \/ \E t \in Callers : CallerCloseDone(t)
    \/ \E t \in Handlers, c \in Conns : LoginCall(t, c)
    \/ \E t \in Handlers, r \in LoginGetOutcomes : LoginGetDone(t, r)
    \/ \E t \in Handlers, r \in LoginPostOutcomes : LoginPostDone(t, r)
    \/ \E t \in Handlers : LoginRetry(t)
    \/ \E t \in Callers : Dismiss(t)

SpecMonitor == InitConn /\ [][NextMonitor]_vars

FairMonitor ==
    /\ WF_vars(Tick)
    /\ \A c \in Conns :
          /\ WF_vars(MonitorWake(c))
          /\ WF_vars(\E r \in ProbeOutcomes : MonitorProbeDone(c, r))
          /\ WF_vars(MonitorCancelled(c))
          /\ WF_vars(MonitorCloseJoined(c))
          /\ WF_vars(MonitorCloseDone(c))
    /\ \A t \in Callers :
          /\ WF_vars(CallerCloseJoined(t))
          /\ WF_vars(CallerCloseDone(t))

SpecMonitorLive == SpecMonitor /\ FairMonitor

\* The instance c is closed, its monitor task has ended and the pool does not
\* hold c.
ClosedAndGone(c) ==
    /\ is_closed[c]
    /\ auto_close_task[c] = "done"
    /\ \A i \in Identities : aufe_connections[i] # c

\* C21: the monitor enters its own close() only when the time since
\* last_activity is above ACTIVITY_TIMEOUT; and an instance that is not closed
\* and has been idle for longer than ACTIVITY_TIMEOUT is, unless a caller touches
\* it again, eventually closed with its monitor task ended and its pool entry
\* removed.
C21_IdleIsClosed ==
    /\ [][\A c \in Constructed :
             (auto_close_task[c] = "sleep" /\ auto_close_task'[c] = "close_self")
             => /\ now - last_activity[c] > ACTIVITY_TIMEOUT
                /\ ~is_closed[c] /\ is_closed'[c]]_vars
    /\ \A c \in Conns :
          (c \in Constructed /\ ~is_closed[c]
             /\ now - last_activity[c] > ACTIVITY_TIMEOUT)
          ~> (ClosedAndGone(c) \/ now - last_activity[c] <= ACTIVITY_TIMEOUT)

\* C21, its case: the monitor has closed an instance that was idle for too long,
\* close() has returned into it and it has left its loop.
C21_Witness ==
    \E c \in Constructed :
        /\ ClosedAndGone(c)
        /\ now - last_activity[c] > ACTIVITY_TIMEOUT
        /\ close_log[c].returned
        /\ close_log[c].entered = 1
        /\ \A t \in Callers : caller[t].op # "close"

\* C22: the monitor closes an instance that stays unhealthy, not only an idle
\* one: a cycle of the monitor that finds the health record unhealthy and whose
\* probe leaves it unhealthy does not go back to sleep with the instance open.
C22_UnhealthyIsClosed ==
    [][\A c \in Constructed :
          (/\ auto_close_task[c] = "probe"
           /\ auto_close_task'[c] = "sleep"
           /\ ~health[c].is_healthy
           /\ ~health'[c].is_healthy)
          => is_closed'[c]]_vars

\* C23: when the monitor of an instance that is not closed wakes and the instance
\* has not been idle for longer than ACTIVITY_TIMEOUT, it sends a probe, whether
\* the instance is logged in or not; the answer 200 leaves the health record
\* healthy with error_count 0, and any other answer or a failed probe leaves it
\* unhealthy with a connection error and error_count one higher.
C23_ProbeEveryCycle ==
    [][\A c \in Constructed :
          /\ (/\ MonitorWake(c)
              /\ ~is_closed[c]
              /\ session[c] = "open"
              /\ now - last_activity[c] <= ACTIVITY_TIMEOUT)
             => auto_close_task'[c] = "probe"
          /\ (auto_close_task[c] = "probe" /\ auto_close_task'[c] = "sleep")
             => \/ health'[c] = [is_healthy |-> TRUE, error_count |-> 0,
                                 last_error |-> "None"]
                \/ /\ ~health'[c].is_healthy
                   /\ health'[c].error_count = health[c].error_count + 1
                   /\ health'[c].last_error \in {"AUFEConnectionError",
                                                 "RequestError"}]_vars

\* ================================================ properties of the pool sweep
\* The pool holds the instance c.
Pooled(c) == \E i \in Identities : aufe_connections[i] = c

\* C24: when cleanup_inactive_connections() returns n, every instance of its
\* snapshot (the pooled instances that were not active when it started) is closed
\* and not in the pool, every pooled instance that is active before the return is
\* still pooled and not closed, and n is the number of snapshot instances that
\* have left the pool.
C24_SweepClosesInactive ==
    [][\A t \in Handlers :
          Returns(t, "cleanup")
          => /\ \A c \in caller'[t].snapshot : is_closed'[c] /\ ~Pooled(c)'
             /\ \A c \in Constructed :
                   (Pooled(c) /\ is_active(c)) => (Pooled(c)' /\ ~is_closed'[c])
             /\ caller'[t].count =
                   Cardinality({c \in caller'[t].snapshot : ~Pooled(c)'})]_vars

\* ================================================= get_connection_stats
\* A listing of the instances that are not closed, whatever their activity and
\* health: not what C25 states.
get_all_open_connections ==
    {i \in Identities :
        aufe_connections[i] # NoConn /\ ~is_closed[aufe_connections[i]]}

\* lines 1111-1123: the ids whose pooled instance is_active().
get_all_active_connections ==
    {i \in Identities :
        aufe_connections[i] # NoConn /\ is_active(aufe_connections[i])}

\* lines 1152-1176.  The call has no await: it is one step, and it assigns to
\* nothing but its result.
get_connection_stats(t) ==
    LET total_connections ==
            Cardinality({i \in Identities : aufe_connections[i] # NoConn})
        active_connections == Cardinality(get_all_active_connections)
        healthy_connections ==
            Cardinality({i \in Identities :
                            /\ aufe_connections[i] # NoConn
                            /\ health[aufe_connections[i]].is_healthy})
    IN  /\ caller[t].pc = "idle"
        /\ caller' = SetCaller(t, [IdleCaller EXCEPT
              !.op = "stats", !.pc = "done",
              !.stats = [total_connections |-> total_connections,
                         active_connections |-> active_connections,
                         inactive_connections |->
                             total_connections - active_connections,
                         healthy_connections |-> healthy_connections,
                         unhealthy_connections |->
                             total_connections - healthy_connections]])
        /\ UNCHANGED <<poolVars, is_closed, authVars, health, last_activity, session,
                       request_cache, auto_close_task, close_task, now, retry,
                       evalVars, tokenVars,
                       close_log>>
        /\ Decay

\* The times of the modelled clock.
Times == {k * TickSeconds : k \in 0..(MaxTime \div TickSeconds)}

\* The pools get_connection_stats is applied to: no, one or two pooled instances,
\* each closed or not (an instance stays pooled between the first and the second
\* segment of its close()), healthy or not, last touched at any time up to now.
InitStats ==
    /\ nconns \in 0..Cardinality(Identities)
    /\ aufe_connections \in
         {f \in [Identities -> 0..Cardinality(Identities)] :
             /\ \A c \in 1..Cardinality(Identities) : (c <= nconns) = (\E i \in Identities : f[i] = c)
             /\ \A i, j \in Identities : (f[i] = f[j] /\ f[i] # NoConn) => i = j}
    /\ student_id = [c \in Conns |->
                       IF \E i \in Identities : aufe_connections[i] = c
                       THEN CHOOSE i \in Identities : aufe_connections[i] = c
                       ELSE "unset"]
    /\ now \in Times
    /\ is_closed \in {f \in [Conns -> BOOLEAN] : \A c \in Conns : c > nconns => ~f[c]}
    /\ health \in {f \in [Conns -> {HealthInit, mark_error(HealthInit, "RequestError")}] :
                     \A c \in Conns : c > nconns => f[c] = HealthInit}
    /\ last_activity \in {f \in [Conns -> Times] :
                            \A c \in Conns : /\ f[c] <= now
                                             /\ c > nconns => f[c] = 0}
    /\ logged_in = [c \in Conns |-> FALSE]
    /\ uaap_logged_in = [c \in Conns |-> FALSE]
    /\ twf_id = [c \in Conns |-> "None"]
    /\ uaap_cookies = [c \in Conns |-> "None"]
    /\ session = [c \in Conns |-> IF c <= nconns THEN "open" ELSE "unset"]
    /\ request_cache = [c \in Conns |-> [k \in Keys |-> NoEntry]]
    /\ auto_close_task = [c \in Conns |->
                            IF c > nconns THEN "unset"
                            ELSE IF is_closed[c] THEN "close_self" ELSE "sleep"]
    /\ close_task = [c \in Conns |-> "none"]
    /\ caller = [t \in Callers |-> IdleCaller]
    /\ retry = NoRetry /\ SideIdle
    /\ last_ret = [i \in Identities |-> NoConn]
    /\ stayed_active = [i \in Identities |-> FALSE]
    /\ just_returned = "none"
    /\ close_log = [c \in Conns |-> NoCloseLog]

NextStats ==
    \/ \E t \in Handlers : get_connection_stats(t)
    \/ \E t \in Handlers : Dismiss(t)
    \/ Tick

SpecStats == InitStats /\ [][NextStats]_vars

\* C25: get_connection_stats() changes nothing of the pool and of its instances,
\* and in what it returns total = active + inactive = healthy + unhealthy, where
\* total, active and healthy are the numbers of pooled instances, of pooled
\* instances that are open, recently touched and healthy, and of pooled instances
\* that are healthy; so active <= healthy.
C25_StatsPure ==
    [][\A t \in Handlers :
          Returns(t, "stats")
          => LET st == caller'[t].stats
                 pooled == {i \in Identities : aufe_connections[i] # NoConn}
                 act == {i \in pooled :
                           /\ ~is_closed[aufe_connections[i]]
                           /\ now - last_activity[aufe_connections[i]]
                                 < ACTIVITY_TIMEOUT
                           /\ health[aufe_connections[i]].is_healthy}
                 hea == {i \in pooled : health[aufe_connections[i]].is_healthy}
             IN  /\ UNCHANGED <<poolVars, is_closed, authVars, health, last_activity,
                                session, request_cache, auto_close_task, close_task,
                                now>>
                 /\ st.total_connections = Cardinality(pooled)
                 /\ st.active_connections = Cardinality(act)
                 /\ st.healthy_connections = Cardinality(hea)
                 /\ st.total_connections
                       = st.active_connections + st.inactive_connections
                 /\ st.total_connections
                       = st.healthy_connections + st.unhealthy_connections
                 /\ st.active_connections <= st.healthy_connections
                 /\ st.inactive_connections >= 0
                 /\ st.unhealthy_connections >= 0]_vars

\* C25, its case: the statistics of a pool of two instances, one active and one
\* healthy but idle for too long.
C25_Witness ==
    \E t \in Handlers :
        /\ caller[t].op = "stats" /\ caller[t].pc = "done"
        /\ caller[t].stats.total_connections = 2
        /\ caller[t].stats.active_connections = 1
        /\ caller[t].stats.inactive_connections = 1
        /\ caller[t].stats.healthy_connections = 2

\* C26: a model_request called with force_reconnect = True performs the
\* reconnect and never returns a cached value.
C26_ForceBypassesCache ==
    [][\A t \in Handlers :
          (Returns(t, "model_request") /\ caller'[t].force_reconnect)
          => /\ caller'[t].result # "cached"
             /\ caller'[t].reconnect # "none"]_vars

\* C27: under the default retry_on_exceptions, a wrapper that raises
\* AUFEParseError to its caller has executed the operation max_attempts times, as
\* one that raises AUFEConnectionError or AUFETimeoutError has, while
\* AUFELoginError is raised to the caller by the execution that raised it.
C27_ParseErrorRetried ==
    /\ (retry.pc = "raised"
          /\ retry.result \in {"AUFEParseError", "AUFEConnectionError",
                               "AUFETimeoutError"})
       => retry.calls = retry.config.max_attempts
    /\ retry.op_raised = "AUFELoginError"
       => (retry.pc = "raised" /\ retry.result = "AUFELoginError")

NextReq ==
    \/ Tick
    \/ \E t \in Handlers, c \in Conns, k \in Keys, u \in BOOLEAN, f \in BOOLEAN :
          ModelRequest(t, c, k, u, f)
    \/ \E t \in Handlers, r \in ReconnectOutcomes : ReqReconnected(t, r)
    \/ \E t \in Handlers, r \in HttpOutcomes : ReqHttpDone(t, r)
    \/ \E t \in Handlers : ReqSleepDone(t)
    \/ \E t \in Handlers, r \in ReconnectOutcomes : ReqFinalReconnected(t, r)
    \/ \E t \in Handlers, r \in HttpOutcomes : ReqFinalHttpDone(t, r)
    \/ \E t \in Callers \ Handlers, c \in Conns : LoginCall(t, c)
    \/ \E t \in Callers \ Handlers, r \in LoginGetOutcomes : LoginGetDone(t, r)
    \/ \E t \in Callers \ Handlers, r \in LoginPostOutcomes : LoginPostDone(t, r)
    \/ \E t \in Callers \ Handlers : LoginRetry(t)
    \/ \E t \in Callers : Dismiss(t)

SpecReq == InitConn /\ [][NextReq]_vars

\* C29 as stated: every HTTP call a model_request issues once it has performed a
\* reconnect is sent with _logged_in False, _uaap_logged_in False and no twf_id.
C29_UnauthenticatedAfterReconnect ==
    [][\A t \in Handlers, c \in Constructed :
          (/\ caller'[t].op = "model_request"
           /\ caller'[t].conn = c
           /\ caller'[t].reconnect = "ok"
           /\ caller'[t].sends > caller[t].sends)
          => (~logged_in'[c] /\ ~uaap_logged_in'[c] /\ twf_id'[c] = "None")]_vars

\* C29 as amended: the HTTP call a model_request issues as its reconnect is done
\* is sent with _logged_in False, _uaap_logged_in False and no twf_id, and no
\* step of a model_request sets one of the three: a later call of the request
\* finds them set only when another task has logged in meanwhile.
C29_NoLoginByRequest ==
    [][\A t \in Handlers, c \in Constructed :
          (/\ caller'[t].op = "model_request"
           /\ caller'[t].conn = c
           /\ caller'[t] # caller[t])
          => /\ (caller[t].reconnect = "awaiting" /\ caller'[t].reconnect = "ok")
                => /\ caller'[t].sends = caller[t].sends + 1
                   /\ ~logged_in'[c] /\ ~uaap_logged_in'[c]
                   /\ twf_id'[c] = "None"
             /\ logged_in'[c] => logged_in[c]
             /\ uaap_logged_in'[c] => uaap_logged_in[c]
             /\ twf_id'[c] # "None" => twf_id'[c] = twf_id[c]]_vars

\* C29, its case: a model_request has reconnected an instance that was logged in
\* and has sent its call on the new client.
C29_Witness ==
    \E t \in Handlers, c \in Constructed :
        /\ caller[t].op = "model_request" /\ caller[t].conn = c
        /\ caller[t].reconnect = "ok"
        /\ caller[t].pc \in {"req_http", "req_final_http"}
        /\ ~logged_in[c] /\ twf_id[c] = "None"
        /\ \E u \in Callers \ Handlers :
              caller[u].op = "login" /\ caller[u].result = "True"

\* ============================================== the delays of the wrapper
\* The delay the strategy of config gives for the failure of attempt number
\* attempt, before jitter.
StrategyDelay(attempt, config) ==
    IF config.strategy = "immediate" THEN 0
    ELSE IF config.strategy = "fixed_delay" THEN config.base_delay
    ELSE IF config.strategy = "exponential_backoff"
    THEN LET grown == config.base_delay * Pow(config.exponential_base, attempt)
         IN  IF grown < config.max_delay THEN grown ELSE config.max_delay
    ELSE LET grown == config.base_delay * (attempt + 1)
         IN  IF grown < config.max_delay THEN grown ELSE config.max_delay

\* C30: the j-th sleep of the wrapper follows the failure of attempt j - 1; with
\* jitter off it lasts 0 for immediate, base_delay for fixed_delay,
\* min(base_delay * exponential_base^attempt, max_delay) for exponential_backoff
\* and min(base_delay * (attempt + 1), max_delay) for linear_backoff; with jitter
\* on it lasts between half of that and that, and 0 when that is 0.
C30_DelayFormula ==
    \A j \in 1..Len(retry.delays) :
        LET d == StrategyDelay(j - 1, retry.config)
        IN  IF retry.config.jitter
            THEN /\ 2 * retry.delays[j] >= d
                 /\ retry.delays[j] <= d
                 /\ d = 0 => retry.delays[j] = 0
            ELSE retry.delays[j] = d

\* C30, its case: exponential_backoff with a second delay that max_delay caps,
\* drawn with jitter strictly between half of the cap and the cap; and
\* linear_backoff slept twice without jitter.
C30_Witness ==
    /\ Len(retry.delays) = 2
    /\ \/ /\ retry.config.strategy = "exponential_backoff"
          /\ retry.config.jitter
          /\ retry.config.base_delay * RETRY_EXPONENTIAL_BASE > retry.config.max_delay
          /\ 2 * retry.delays[2] > retry.config.max_delay
          /\ retry.delays[2] < retry.config.max_delay
       \/ /\ retry.config.strategy = "linear_backoff"
          /\ ~retry.config.jitter
          /\ retry.delays[2] = retry.config.max_delay
          /\ retry.delays[1] < retry.config.max_delay

\* =================================================== the answer to the form
\* C31: uaap_login() returns True exactly when the answer to its POST is a
\* redirect (any 3xx status) with a non-empty Location header; it then holds the
\* answer's cookies as uaap_cookies and _uaap_logged_in is True. For every other
\* answer the call does not succeed, with or without a tipMsg node.
C31_RedirectSucceeds ==
    [][\A t \in Handlers, c \in Constructed :
          (/\ caller[t].pc = "uaap_post"
           /\ caller[t].conn = c
           /\ caller'[t].pc # "uaap_post")
          => /\ (caller'[t].pc = "done" /\ caller'[t].result = "True")
                  <=> caller'[t].page \in {"302_Location", "303_Location"}
             /\ caller'[t].page \in {"302_Location", "303_Location"}
                  => /\ uaap_logged_in'[c]
                     /\ uaap_cookies'[c] = "cookies"]_vars

\* ================================================ evaluation task managers
\* src/router/jwc/evaluate.py and the evaluation endpoints of
\* src/router/jwc/__init__.py.  SpecEval: the managers of one user, their
\* background tasks and the initialize, start, terminate and status requests.

\* what fetch_evaluation_course_list can return: any courses of the catalogue in
\* its order, each with its name and whether its is_evaluated is "是".
CourseLists ==
    LET Course == [name : {catalogue[i] : i \in 1..Len(catalogue)},
                   is_evaluated : BOOLEAN]
        Position(name) == CHOOSE i \in 1..Len(catalogue) : catalogue[i] = name
    IN  {cl \in UNION {[1..n -> Course] : n \in 0..Len(catalogue)} :
            \A i, j \in 1..Len(cl) :
                i < j => Position(cl[i].name) < Position(cl[j].name)}

\* how an awaited fetch_evaluation_course_list ends: with a list, or raising.
FetchOutcomes ==
    {[list |-> cl, raised |-> FALSE] : cl \in CourseLists}
        \cup {[list |-> <<>>, raised |-> TRUE]}

\* lines 375-379 and 436-440: the courses of a list that are not evaluated yet.
PendingOf(courses) == SelectSeq(courses, LAMBDA course : ~course.is_evaluated)

\* line 345: self._task and not self._task.done().
TaskLive(mr) == mr.task \notin {"none", "done"}

\* lines 625-640: get_task_manager drops the entry of a manager that is over.
Discard(tm, u) ==
    IF tm[u] # NoManager /\ manager[tm[u]].status \in {"completed", "failed", "terminated"}
    THEN [tm EXCEPT ![u] = NoManager]
    ELSE tm

\* lines 642-649: get_task_manager(user_id, client) after Discard: the entry
\* that is left, or a new manager that is registered.
GetOrCreate(tm, u, m) ==
    IF tm[u] # NoManager
    THEN /\ m = tm[u]
         /\ task_managers' = tm
         /\ UNCHANGED nmanagers
    ELSE /\ nmanagers < MaxManagers
         /\ m = nmanagers + 1
         /\ nmanagers' = m
         /\ task_managers' = [tm EXCEPT ![u] = m]

\* __init__.py lines 363-398 and 415-430: the status and current-course
\* requests; of the state they only touch the registry, through get_task_manager.
EvalStatus(t, u) ==
    /\ request[t].pc = "idle"
    /\ task_managers' = Discard(task_managers, u)
    /\ UNCHANGED <<nmanagers, manager, request>>
    /\ UNCHANGED <<connVars, retry, tokenVars, catalogue>>

\* __init__.py lines 208-242 and evaluate.py lines 152-157: the initialize
\* request up to the first await of initialize().
EvalInitialize(t, u) ==
    LET tm == Discard(task_managers, u)
        handed == IF tm[u] # NoManager
                  THEN manager[tm[u]]
                  ELSE [NewManager EXCEPT !.user_id = u] IN
    /\ request[t].pc = "idle"
    /\ IF /\ tm[u] # NoManager
          /\ manager[tm[u]].status \in {"running", "paused", "initializing"}
       THEN /\ task_managers' = tm
            /\ UNCHANGED <<nmanagers, manager, request>>
       ELSE \E m \in Managers :
              /\ GetOrCreate(tm, u, m)
              /\ manager' = [manager EXCEPT
                               ![m] = [handed EXCEPT !.status = "initializing"]]
              /\ request' = [request EXCEPT
                               ![t] = [op |-> "initialize", pc |-> "check_network",
                                       mgr |-> m]]
    /\ UNCHANGED <<connVars, retry, tokenVars, catalogue>>

\* evaluate.py lines 157-186 and 221-227: the answers to check_network_connection,
\* validate_environment_and_cookie and get_token.
EvalInitStep(t, r) ==
    LET m == request[t].mgr
        InitSteps == <<"check_network", "validate", "get_token", "fetch">> IN
    /\ request[t].op = "initialize"
    /\ \E k \in 1..(Len(InitSteps) - 1) :
          /\ request[t].pc = InitSteps[k]
          /\ IF r = "ok"
             THEN /\ request' = [request EXCEPT ![t].pc = InitSteps[k + 1]]
                  /\ UNCHANGED manager
             ELSE /\ request' = [request EXCEPT ![t] = IdleRequest]
                  /\ manager' = [manager EXCEPT ![m].status = "failed"]
    /\ UNCHANGED <<task_managers, nmanagers>>
    /\ UNCHANGED <<connVars, retry, tokenVars, catalogue>>

\* evaluate.py lines 191-227: the answer to fetch_evaluation_course_list.
EvalInitFetched(t, r) ==
    LET m == request[t].mgr IN
    /\ request[t].op = "initialize"
    /\ request[t].pc = "fetch"
    /\ manager' = [manager EXCEPT
                     ![m] = IF r.raised \/ r.list = <<>>
                            THEN [@ EXCEPT !.status = "failed"]
                            ELSE [@ EXCEPT !.course_list = r.list, !.status = "idle"]]
    /\ request' = [request EXCEPT ![t] = IdleRequest]
    /\ UNCHANGED <<task_managers, nmanagers>>
    /\ UNCHANGED <<connVars, retry, tokenVars, catalogue>>

\* evaluate.py lines 334-352: the checks of start_evaluation_task.
Startable(mr) ==
    /\ mr.status \notin {"running", "initializing"}
    /\ ~TaskLive(mr)
    /\ ~(mr.status = "idle" /\ Len(mr.course_list) = 0)

\* __init__.py lines 278-307 and evaluate.py lines 327-361: the start request.
EvalStart(t, u) ==
    LET tm == Discard(task_managers, u)
        handed == IF tm[u] # NoManager
                  THEN manager[tm[u]]
                  ELSE [NewManager EXCEPT !.user_id = u] IN
    /\ request[t].pc = "idle"
    /\ IF tm[u] # NoManager /\ manager[tm[u]].status \in {"running", "paused"}
       THEN /\ task_managers' = tm
            /\ UNCHANGED <<nmanagers, manager>>
       ELSE \E m \in Managers :
              /\ GetOrCreate(tm, u, m)
              /\ manager' = [manager EXCEPT
                               ![m] = IF Startable(handed)
                                      THEN [handed EXCEPT
                                              !.stop_event = FALSE,
                                              !.task = "created", !.cancel = FALSE,
                                              !.passed = <<>>, !.at_start = {}]
                                      ELSE handed]
    /\ UNCHANGED request
    /\ UNCHANGED <<connVars, retry, tokenVars, catalogue>>

\* __init__.py lines 330-346 and evaluate.py lines 507-536: the terminate
\* request, up to the wait for the task when there is one to wait for.  The
\* endpoint removes the user's entry whatever terminate_task returned.
EvalTerminate(t, u) ==
    LET tm == Discard(task_managers, u)
        m == tm[u] IN
    /\ request[t].pc = "idle"
    /\ IF m = NoManager
       THEN /\ task_managers' = tm
            /\ UNCHANGED <<manager, request>>
       ELSE IF manager[m].status \notin {"running", "paused"}
       THEN /\ task_managers' = [tm EXCEPT ![u] = NoManager]
            /\ UNCHANGED <<manager, request>>
       ELSE IF TaskLive(manager[m])
       THEN /\ manager' = [manager EXCEPT ![m].stop_event = TRUE]
            /\ task_managers' = tm
            /\ request' = [request EXCEPT
                             ![t] = [op |-> "terminate", pc |-> "wait_for", mgr |-> m]]
       ELSE /\ manager' = [manager EXCEPT ![m].status = "terminated",
                                            ![m].stop_event = TRUE]
            /\ task_managers' = [tm EXCEPT ![u] = NoManager]
            /\ UNCHANGED request
    /\ UNCHANGED nmanagers
    /\ UNCHANGED <<connVars, retry, tokenVars, catalogue>>

\* evaluate.py lines 522-529: the five seconds of wait_for are over while the
\* task is still running; it is cancelled and awaited.
EvalTermTimeout(t) ==
    LET m == request[t].mgr IN
    /\ request[t].pc = "wait_for"
    /\ TaskLive(manager[m])
    /\ ~manager[m].cancel
    /\ manager' = [manager EXCEPT ![m].cancel = TRUE]
    /\ UNCHANGED <<task_managers, nmanagers, request>>
    /\ UNCHANGED <<connVars, retry, tokenVars, catalogue>>

\* evaluate.py lines 522-536 and __init__.py line 346: the awaited task is over;
\* the endpoint removes the user's entry, whichever manager it holds by now.
EvalTermJoined(t) ==
    LET m == request[t].mgr IN
    /\ request[t].pc = "wait_for"
    /\ ~TaskLive(manager[m])
    /\ manager' = [manager EXCEPT ![m].status = "terminated"]
    /\ task_managers' = [task_managers EXCEPT ![manager[m].user_id] = NoManager]
    /\ request' = [request EXCEPT ![t] = IdleRequest]
    /\ UNCHANGED nmanagers
    /\ UNCHANGED <<connVars, retry, tokenVars, catalogue>>


\* ------------------------------------------- the background task of a manager
\* evaluate.py lines 395-417 and 239-250: the test of the while loop and what
\* follows it up to the next await: the end of the task, or the next course given
\* to evaluate_course, which awaits access_evaluation_page.
LoopTop(mr) ==
    IF mr.index < Len(mr.pending_courses)
    THEN IF mr.stop_event
         THEN [mr EXCEPT !.status = "terminated", !.task = "done"]
         ELSE [mr EXCEPT !.passed = Append(@, mr.pending_courses[mr.index + 1].name),
                         !.task = "access"]
    ELSE [mr EXCEPT !.status = "completed", !.task = "done"]

\* lines 419-433: the course is counted and the list is fetched again.
AfterCourse(mr, success) ==
    IF success
    THEN [mr EXCEPT !.success_count = @ + 1, !.task = "refresh"]
    ELSE [mr EXCEPT !.fail_count = @ + 1, !.task = "refresh"]

\* lines 449-454: the three seconds before the next course, or the next turn
\* of the loop at once.
AfterRefresh(mr) ==
    IF Len(mr.pending_courses) > 0 /\ mr.index < Len(mr.pending_courses) - 1
    THEN [mr EXCEPT !.task = "sleep"]
    ELSE LoopTop([mr EXCEPT !.index = @ + 1])

TaskStep(m, pc) ==
    /\ m <= nmanagers
    /\ manager[m].task = pc
    /\ ~manager[m].cancel
    /\ UNCHANGED <<task_managers, nmanagers, request>>
    /\ UNCHANGED <<connVars, retry, tokenVars, catalogue>>

\* lines 363-367: the task starts and awaits get_token.
TaskBegin(m) ==
    /\ TaskStep(m, "created")
    /\ manager' = [manager EXCEPT ![m].task = "get_token"]

\* lines 367-394 and 467-473: the answer to get_token.
TaskTokenDone(m, r) ==
    LET mr == manager[m]
        pending == PendingOf(mr.course_list) IN
    /\ TaskStep(m, "get_token")
    /\ manager' =
         [manager EXCEPT ![m] =
            IF r # "token"
            THEN [mr EXCEPT !.status = "failed", !.task = "done"]
            ELSE IF pending = <<>>
            THEN [mr EXCEPT !.status = "completed", !.task = "done"]
            ELSE LoopTop([mr EXCEPT
                            !.pending_courses = pending,
                            !.at_start = {pending[i].name : i \in 1..Len(pending)},
                            !.status = "running", !.success_count = 0,
                            !.fail_count = 0, !.index = 0])]

\* lines 250-275 and 323-325: the answer to access_evaluation_page; the first
\* turn of the countdown looks at the stop event and sleeps a second.
TaskAccessDone(m, r) ==
    /\ TaskStep(m, "access")
    /\ manager' =
         [manager EXCEPT ![m] =
            IF r # "True"
            THEN AfterCourse(@, FALSE)
            ELSE IF @.stop_event
            THEN AfterCourse([@ EXCEPT !.status = "terminated"], FALSE)
            ELSE [@ EXCEPT !.task = "countdown"]]

\* lines 263-280: a second of the countdown is over.  Of the 140 seconds only
\* whether this one was the last is kept: another turn looks at the stop event
\* and sleeps again, the end of the loop submits the evaluation.
TaskCountdownDone(m, last) ==
    /\ TaskStep(m, "countdown")
    /\ manager' =
         [manager EXCEPT ![m] =
            IF last
            THEN [@ EXCEPT !.task = "submit"]
            ELSE IF @.stop_event
            THEN AfterCourse([@ EXCEPT !.status = "terminated"], FALSE)
            ELSE @]

\* lines 309-325: the answer to submit_evaluation.
TaskSubmitDone(m, r) ==
    /\ TaskStep(m, "submit")
    /\ manager' = [manager EXCEPT ![m] = AfterCourse(@, r = "success")]

\* lines 433-454 and 467-473: the answer to the fetch after a course.
TaskRefreshDone(m, r) ==
    /\ TaskStep(m, "refresh")
    /\ manager' =
         [manager EXCEPT ![m] =
            IF r.raised
            THEN [@ EXCEPT !.status = "failed", !.task = "done"]
            ELSE IF r.list # <<>>
            THEN AfterRefresh([@ EXCEPT !.course_list = r.list,
                                        !.pending_courses = PendingOf(r.list)])
            ELSE AfterRefresh(@)]

\* lines 452-454: the three seconds are over.
TaskSleepDone(m) ==
    /\ TaskStep(m, "sleep")
    /\ manager' = [manager EXCEPT ![m] = LoopTop([@ EXCEPT !.index = @ + 1])]

\* lines 524-529: the cancelled task is resumed with CancelledError, which no
\* except clause of the task takes: the task is over, its status as it was.
TaskCancelled(m) ==
    /\ m <= nmanagers
    /\ TaskLive(manager[m])
    /\ manager[m].cancel
    /\ manager' = [manager EXCEPT ![m].task = "done", ![m].cancel = FALSE]
    /\ UNCHANGED <<task_managers, nmanagers, request>>
    /\ UNCHANGED <<connVars, retry, tokenVars, catalogue>>

\* SpecEval: no manager yet, and a user with one course.  With one course the
\* task never sleeps between two courses (line 449), so NextEval has no
\* TaskSleepDone; SpecTask has the catalogue of two courses.
InitEval ==
    /\ EmptyPool /\ retry = NoRetry /\ NoLogins
    /\ NoManagers
    /\ catalogue = SubSeq(Catalogue, 1, 1)

NextEval ==
    \/ \E t \in EvalHandlers, u \in Users :
          \/ EvalStatus(t, u)
          \/ EvalInitialize(t, u)
          \/ EvalStart(t, u)
          \/ EvalTerminate(t, u)
    \/ \E t \in EvalHandlers :
          \/ \E r \in {"ok", "fail", "Exception"} : EvalInitStep(t, r)
          \/ \E r \in FetchOutcomes : EvalInitFetched(t, r)
          \/ EvalTermTimeout(t)
          \/ EvalTermJoined(t)
    \/ \E m \in Managers :
          \/ TaskBegin(m)
          \/ \E r \in {"token", "None", "Exception"} : TaskTokenDone(m, r)
          \/ \E r \in {"True", "False", "Exception"} : TaskAccessDone(m, r)
          \/ \E last \in BOOLEAN : TaskCountdownDone(m, last)
          \/ \E r \in {"success", "error", "Exception"} : TaskSubmitDone(m, r)
          \/ \E r \in FetchOutcomes : TaskRefreshDone(m, r)
          \/ TaskCancelled(m)

SpecEval == InitEval /\ [][NextEval]_vars

\* C32: of the managers constructed for a user, at most one has a background
\* task that is running at any instant.
C32_OneTaskPerUser ==
    \A u \in Users :
        Cardinality({m \in Managers : /\ m <= nmanagers
                                      /\ manager[m].user_id = u
                                      /\ TaskLive(manager[m])}) <= 1


\* ------------------------------------------------ one manager and its task
\* lines 475-489: pause_task.
pause_task(m) ==
    /\ m <= nmanagers
    /\ manager[m].status = "running"
    /\ manager' = [manager EXCEPT ![m].status = "paused"]
    /\ UNCHANGED <<task_managers, nmanagers, request>>
    /\ UNCHANGED <<connVars, retry, tokenVars, catalogue>>

\* lines 491-505: resume_task.
resume_task(m) ==
    /\ m <= nmanagers
    /\ manager[m].status = "paused"
    /\ manager' = [manager EXCEPT ![m].status = "running"]
    /\ UNCHANGED <<task_managers, nmanagers, request>>
    /\ UNCHANGED <<connVars, retry, tokenVars, catalogue>>

\* SpecTask: the manager of a user as a successful initialize request leaves it,
\* with any course list of the catalogue that has a course, and what happens to
\* it from then on: start, the background task, pause, resume, terminate, status.
InitTask ==
    /\ EmptyPool /\ retry = NoRetry /\ NoLogins
    /\ catalogue = Catalogue
    /\ task_managers = [u \in Users |-> 1]
    /\ nmanagers = 1
    /\ \E cl \in CourseLists \ {<<>>} :
          manager = [m \in Managers |->
                       IF m = 1
                       THEN [NewManager EXCEPT !.user_id = "u1", !.course_list = cl]
                       ELSE NewManager]
    /\ request = [t \in EvalHandlers |-> IdleRequest]

NextTask ==
    \/ \E t \in EvalHandlers, u \in Users :
          \/ EvalStatus(t, u)
          \/ EvalStart(t, u)
          \/ EvalTerminate(t, u)
    \/ \E t \in EvalHandlers :
          \/ EvalTermTimeout(t)
          \/ EvalTermJoined(t)
    \/ \E m \in Managers :
          \/ pause_task(m)
          \/ resume_task(m)
          \/ TaskBegin(m)
          \/ \E r \in {"token", "None", "Exception"} : TaskTokenDone(m, r)
          \/ \E r \in {"True", "False", "Exception"} : TaskAccessDone(m, r)
          \/ \E last \in BOOLEAN : TaskCountdownDone(m, last)
          \/ \E r \in {"success", "error", "Exception"} : TaskSubmitDone(m, r)
          \/ \E r \in FetchOutcomes : TaskRefreshDone(m, r)
          \/ TaskSleepDone(m)
          \/ TaskCancelled(m)

SpecTask == InitTask /\ [][NextTask]_vars

\* C33: while the status of a manager is PAUSED its task gives no course to
\* evaluate_course and submits no evaluation, and the status changes only by
\* resume_task() (to RUNNING, nothing else changed) or by a terminate_task()
\* call, which has set the stop event.
C33_PauseSuspends ==
    [][\A m \in Managers :
          manager[m].status = "paused"
          => /\ manager'[m].passed = manager[m].passed
             /\ manager'[m].task = "submit" => manager[m].task = "submit"
             /\ manager'[m].status # "paused"
                  => \/ manager'[m] = [manager[m] EXCEPT !.status = "running"]
                     \/ manager'[m].stop_event]_vars

\* C38: when the task of a manager has ended with status COMPLETED, every course
\* that was pending when the task began has been given to evaluate_course, and
\* success_count + fail_count is the number of courses given to it.
C38_EveryPendingCourseEvaluated ==
    \A m \in Managers :
        (m <= nmanagers /\ manager[m].status = "completed" /\ manager[m].task = "done")
        => /\ manager[m].at_start \subseteq
                 {manager[m].passed[i] : i \in 1..Len(manager[m].passed)}
           /\ manager[m].success_count + manager[m].fail_count = Len(manager[m].passed)


\* ====================================================== login-token records
\* src/provider/loveac/authme.py, manage_user_tokens, as login_user calls it
\* (src/router/login/__init__.py lines 63-68).  SpecLogin: the authme_table rows
\* of one user under login requests of that user that may overlap.  A row is the
\* number of the insert that made it; the table is in create_date order.

\* authme.py lines 62-68: the select is answered with the user's rows.
LoginSelect(t) ==
    /\ login_user[t].pc = "idle"
    /\ ntokens < MaxLogins
    /\ login_user' = [login_user EXCEPT
                        ![t] = [pc |-> "selected", existing_tokens |-> authme_table]]
    /\ UNCHANGED <<authme_table, ntokens>>
    /\ UNCHANGED <<connVars, retry, evalVars>>

\* authme.py lines 71-84: the oldest OLDEST_DELETED of the rows the select
\* returned, when it returned TOKEN_LIMIT or more, are deleted, the new row is
\* inserted, and both are committed.  Deleting a row that another login has
\* deleted since the select deletes nothing.
LoginCommit(t) ==
    LET existing_tokens == login_user[t].existing_tokens
        oldest_tokens == IF Len(existing_tokens) >= TOKEN_LIMIT
                         THEN {existing_tokens[i] : i \in 1..OLDEST_DELETED}
                         ELSE {}
        Kept(row) == row \notin oldest_tokens IN
    /\ login_user[t].pc = "selected"
    /\ authme_table' = Append(SelectSeq(authme_table, Kept), ntokens + 1)
    /\ ntokens' = ntokens + 1
    /\ login_user' = [login_user EXCEPT
                        ![t] = [pc |-> "idle", existing_tokens |-> <<>>]]
    /\ UNCHANGED <<connVars, retry, evalVars>>

NextLogin ==
    \E t \in LoginHandlers :
        \/ LoginSelect(t)
        \/ LoginCommit(t)

SpecLogin == Init /\ [][NextLogin]_vars

\* C34: the user holds at most TOKEN_LIMIT login-token records at any time,
\* whatever logins of the user overlap, and a login whose select found
\* TOKEN_LIMIT or more records leaves none of the OLDEST_DELETED oldest of them.
C34_AtMostFiveTokens ==
    /\ [](Len(authme_table) <= TOKEN_LIMIT)
    /\ [][\A t \in LoginHandlers :
            (/\ login_user[t].pc = "selected"
             /\ login_user'[t].pc = "idle"
             /\ Len(login_user[t].existing_tokens) >= TOKEN_LIMIT)
            => \A i \in 1..OLDEST_DELETED, j \in 1..Len(authme_table') :
                   authme_table'[j] # login_user[t].existing_tokens[i]]_vars


\* ===================================================== whose entry close() removes
\* C35: close() removes from the pool only the entry of the instance it closes:
\* an entry that leaves the pool held an instance that is closed by then, so the
\* deferred close() of a replaced instance leaves the entry of its successor.
C35_CloseRemovesOwnEntry ==
    [][\A i \in Identities :
          (aufe_connections[i] # NoConn /\ aufe_connections'[i] = NoConn)
          => is_closed'[aufe_connections[i]]]_vars


\* ================================================== the health record, again
\* C36: after any sequence of mark_error and mark_healthy calls, error_count is
\* not negative, is_healthy holds exactly when error_count is 0, and that is
\* exactly when last_error is None; so should_reconnect() is true after one
\* mark_error, and it is true exactly when the record is unhealthy: the test
\* error_count >= 3 never decides.
C36_HealthCoherent ==
    /\ [](\A c \in Conns :
            /\ health[c].error_count >= 0
            /\ health[c].is_healthy <=> health[c].error_count = 0
            /\ health[c].error_count = 0 <=> health[c].last_error = "None"
            /\ should_reconnect(health[c]) <=> ~health[c].is_healthy)
    /\ [][\A c \in Conns :
            health'[c].error_count = health[c].error_count + 1
            => should_reconnect(health'[c])]_vars

\* C36, its case: a record after a single mark_error, below the threshold of
\* three errors, that asks for a reconnect.
C36_Witness ==
    \E c \in Conns :
        /\ health[c].error_count = 1
        /\ health[c].last_error # "None"
        /\ ~health[c].is_healthy
        /\ should_reconnect(health[c])


\* ============================================= what create_or_get_connection returns
\* SpecGet: create_or_get_connection, the close() tasks it spawns, the monitors
\* and the clock, from every small pool of SpecStats, whose pooled instances may
\* be closed, unhealthy or idle for any time.
NextGet ==
    \/ \E i \in Identities : create_or_get_connection(i)
    \/ Tick
    \/ \E c \in Conns : MonitorWake(c)
    \/ \E c \in Conns : MonitorCancelled(c)
    \/ \E c \in Conns : MonitorCloseJoined(c)
    \/ \E c \in Conns : MonitorCloseDone(c)
    \/ \E c \in Conns : SpawnedClose(c)
    \/ \E c \in Conns : SpawnedCloseJoined(c)
    \/ \E c \in Conns : SpawnedCloseDone(c)

SpecGet == InitStats /\ [][NextGet]_vars

\* C37: the instance create_or_get_connection returns is active in the state the
\* call returns in: not closed, healthy, and last used less than
\* ACTIVITY_TIMEOUT ago; an instance that existed before the call and is
\* returned has last_activity equal to the current time.
C37_ReturnedIsActive ==
    [][\A i \in Identities :
          just_returned' = i
          => \E c \in Conns :
                /\ last_ret'[i] = c
                /\ c <= nconns'
                /\ is_active(c)'
                /\ c <= nconns => last_activity'[c] = now']_vars

\* C37, its case: the call has just returned a new instance for an identity
\* whose pooled instance, not closed and not idle, was unhealthy.
C37_Witness ==
    \E i \in Identities, c, d \in Constructed :
        /\ just_returned = i
        /\ last_ret[i] = c
        /\ is_active(c)
        /\ d # c
        /\ student_id[d] = i
        /\ ~is_closed[d]
        /\ ~health[d].is_healthy
        /\ now - last_activity[d] < ACTIVITY_TIMEOUT

=============================================================================
